---------------------------- MODULE Spec2Model ----------------------------
(***************************************************************************)
(* A model of the reinforcement-learning laboratory of sarrakou/ProjetDL:  *)
(* the environments (environments/src), the replay memory of the linear    *)
(* DQN and the get_best_action / train operations of the algorithms        *)
(* (algorithms/src).                                                       *)
(*                                                                         *)
(* Conventions.                                                            *)
(*  - Option<usize> is a sequence: None is << >>, Some(x) is <<x>>.        *)
(*  - Vec<T> is a sequence; Rust index i is TLA+ index i + 1.              *)
(*  - A Rust panic is the outcome "panicked"; the receiver is left as it   *)
(*    was when the panic was raised.                                       *)
(*  - The f32 values of the modelled runs are small integers (scores,     *)
(*    rewards, learning rates 0.0 and 1.0, and what the updates compute    *)
(*    from them), on which f32 arithmetic is exact; they are integers.     *)
(*  - Several specifications share the variables; each specification       *)
(*    keeps the variables of the other parts at their idle values.         *)
(***************************************************************************)
EXTENDS Integers, Sequences, FiniteSets, TLC

VARIABLES
    env,        \* the environment object (one of the five Environment impls)
    call,       \* the last call made on env: operation, argument, pre-state, outcome
    legal,      \* every step so far was taken in a non-terminal state with an
                \* action of available_actions()
    probe,      \* the last row read from transition_probabilities()
    memory,     \* a ReplayMemory: [transitions, capacity]
    pushed,     \* the transitions whose push completed, in push order
    push_outcome, \* the outcome of the last ReplayMemory::push
    agent,      \* an algorithm object: its tables
    train_writes, \* how many table entries training has written so far
    gba,        \* the last get_best_action call: arguments and result
    qlearning,  \* a QLearning object: q_table, alpha, epsilon, gamma
    dynaq,      \* a DynaQ object: q_table, model, alpha, epsilon, gamma, planning_steps
    lockstep,   \* the two train loops run side by side: episodes begun, steps taken
    train,      \* the call frame of a train call on agent and env
    history,    \* what an observer of the run has noted down so far
    plan        \* the call frame of a planning call: the tables it reads, its objects

envVars == <<env, call, legal, probe>>

memVars == <<memory, pushed, push_outcome>>

agentVars == <<agent, train_writes, gba>>

dynaVars == <<qlearning, dynaq, lockstep>>

otherVars == <<history, plan>>

vars == <<env, call, legal, probe, memory, pushed, push_outcome,
          agent, train_writes, gba, qlearning, dynaq, lockstep, train, history, plan>>

-----------------------------------------------------------------------------
(* Bounds of the model *)

\* step() is called with every action argument in 0..MaxActionArg; 5 is an
\* action no environment offers (MontyHall2 offers 0..4).
MaxActionArg == 5

\* a ReplayMemory is created with every capacity in 0..MaxCapacity
MaxCapacity == 3

\* at most MaxPushes transitions are pushed into a ReplayMemory
MaxPushes == 5

\* the pushed transitions are told apart by their state, in 0..MaxTransitionState
MaxTransitionState == 1

\* training writes values in -MaxTableValue..MaxTableValue into the tables
MaxTableValue == 1

\* at most MaxTrainWrites table entries are written before get_best_action
MaxTrainWrites == 1

\* QLearning and DynaQ are built with alpha and gamma in 0..MaxRate (0.0, 1.0)
MaxRate == 1

\* DynaQ is built with planning_steps in 0..MaxPlanningSteps
MaxPlanningSteps == 1

\* the two train loops run side by side for at most MaxEpisodes episodes
MaxEpisodes == 2

\* and take at most MaxRealSteps environment steps in all
MaxRealSteps == 4

\* the native library behind a SecretEnv reports SecretNumStates states and
\* SecretNumActions actions, and scores in 0..MaxSecretScore
SecretNumStates == 2

SecretNumActions == 2

MaxSecretScore == 1

\* train is called with max_episodes in 0..MaxTrainEpisodes
MaxTrainEpisodes == 2

\* one call of train takes at most MaxTrainSteps environment steps
MaxTrainSteps == 2

\* the DQN under training is built with this memory_capacity and batch_size
TrainMemoryCapacity == 1

TrainBatchSize == 1

\* run_policy gives up after 1000 steps
RunPolicyMaxSteps == 1000

-----------------------------------------------------------------------------
(* Helpers for Rust values *)

None == << >>

Some(x) == <<x>>

is_some(o) == o # << >>

is_none(o) == o = << >>

unwrap(o) == o[1]

unwrap_or(o, d) == IF o = << >> THEN d ELSE o[1]

\* slice.contains(&x)
contains(seq, x) == \E i \in 1..Len(seq) : seq[i] = x

\* the elements of seq that satisfy keep, in order (Vec::retain / filter)
RECURSIVE retain(_, _)
retain(seq, keepSet) ==
    IF seq = << >> THEN << >>
    ELSE IF Head(seq) \in keepSet
         THEN <<Head(seq)>> \o retain(Tail(seq), keepSet)
         ELSE retain(Tail(seq), keepSet)

\* (0..n).collect()
range(n) == [i \in 1..n |-> i - 1]

\* the slices an environment can pass: the actions 0..n-1, some left out
Subsequences(seq) ==
    {retain(seq, keep) : keep \in SUBSET {seq[i] : i \in 1..Len(seq)}}

RECURSIVE SumSeq(_)
SumSeq(seq) == IF seq = << >> THEN 0 ELSE Head(seq) + SumSeq(Tail(seq))

-----------------------------------------------------------------------------
(* LineWorld: environments/src/line_world.rs *)

LineWorld_new == [kind |-> "LineWorld", state |-> 2]

LineWorld_is_game_over(e) == e.state = 0 \/ e.state = 4

LineWorld_available_actions(e) ==
    IF e.state = 0 THEN <<1>>
    ELSE IF e.state = 4 THEN <<0>>
    ELSE <<0, 1>>

LineWorld_score(e) == IF LineWorld_is_game_over(e) THEN 1 ELSE 0

\* step never fails: an action it does not know, or a move off the line, is
\* silently ignored.
LineWorld_step(e, action) ==
    IF action = 0 /\ e.state > 0
    THEN {[env |-> [e EXCEPT !.state = e.state - 1], outcome |-> "returned"]}
    ELSE IF action = 1 /\ e.state < 4
    THEN {[env |-> [e EXCEPT !.state = e.state + 1], outcome |-> "returned"]}
    ELSE {[env |-> e, outcome |-> "returned"]}

\* prob[state][action][next_state], indices from 0
LineWorld_transition_probabilities(e) ==
    [state \in 0..4 |-> [action \in 0..1 |-> [next \in 0..4 |->
        IF action = 0
        THEN IF state > 0
             THEN (IF next = state - 1 THEN 1 ELSE 0)
             ELSE (IF next = state THEN 1 ELSE 0)
        ELSE IF state < 5 - 1
             THEN (IF next = state + 1 THEN 1 ELSE 0)
             ELSE (IF next = state THEN 1 ELSE 0)]]]

\* rewards[state][action] is 1.0 everywhere if the environment is over at
\* the time of the call, 0.0 everywhere otherwise
LineWorld_reward_function(e) ==
    [state \in 0..4 |-> [action \in 0..1 |->
        IF LineWorld_is_game_over(e) THEN 1 ELSE 0]]

\* One pass through the head of the loop of run_policy,
\* while !is_game_over() && steps < 1000: the body if the condition holds,
\* nothing once it has failed. r is [env, total_reward, steps].
LineWorld_run_policy_pass(r, policy) ==
    IF ~LineWorld_is_game_over(r.env) /\ r.steps < RunPolicyMaxSteps
    THEN LET after == (CHOOSE x \in LineWorld_step(r.env, policy[r.env.state]) : TRUE).env
         IN [env |-> after, total_reward |-> r.total_reward + LineWorld_score(after),
             steps |-> r.steps + 1]
    ELSE r

\* n passes, split in halves; mid is the value after the first half
RECURSIVE LineWorld_run_policy_loop(_, _, _)
LineWorld_run_policy_loop(r, policy, n) ==
    IF n = 0 THEN r
    ELSE IF n = 1 THEN LineWorld_run_policy_pass(r, policy)
    ELSE CHOOSE last \in {LineWorld_run_policy_loop(mid, policy, n - (n \div 2))
                          : mid \in {LineWorld_run_policy_loop(r, policy, n \div 2)}} : TRUE

\* run_policy resets, follows the policy and returns total_reward / steps,
\* kept here as the pair of the two
LineWorld_run_policy(e, policy) ==
    LineWorld_run_policy_loop([env |-> [e EXCEPT !.state = 2], total_reward |-> 0,
                               steps |-> 0], policy, RunPolicyMaxSteps)

-----------------------------------------------------------------------------
(* GridWorld: environments/src/grid_world.rs *)

GridWorld_new == [kind |-> "GridWorld", pos_x |-> 1, pos_y |-> 1, size |-> 4]

GridWorld_is_game_over(e) ==
    \/ e.pos_x = 0 /\ e.pos_y = 0
    \/ e.pos_x = e.size - 1 /\ e.pos_y = e.size - 1

GridWorld_available_actions(e) ==
    IF GridWorld_is_game_over(e) THEN << >>
    ELSE (IF e.pos_y > 0 THEN <<0>> ELSE << >>)
         \o (IF e.pos_x < e.size - 1 THEN <<1>> ELSE << >>)
         \o (IF e.pos_y < e.size - 1 THEN <<2>> ELSE << >>)
         \o (IF e.pos_x > 0 THEN <<3>> ELSE << >>)

GridWorld_score(e) ==
    IF e.pos_x = 0 /\ e.pos_y = 0 THEN 1
    ELSE IF e.pos_x = e.size - 1 /\ e.pos_y = e.size - 1 THEN -1
    ELSE 0

\* a step whose action 0 moves down and whose action 2 moves up
GridWorld_step_flipped(e, action) ==
    IF GridWorld_is_game_over(e)
    THEN {[env |-> e, outcome |-> "returned"]}
    ELSE IF ~contains(GridWorld_available_actions(e), action)
    THEN {[env |-> e, outcome |-> "returned"]}
    ELSE CASE action = 0 -> {[env |-> [e EXCEPT !.pos_y = e.pos_y + 1], outcome |-> "returned"]}
           [] action = 1 -> {[env |-> [e EXCEPT !.pos_x = e.pos_x + 1], outcome |-> "returned"]}
           [] action = 2 -> {[env |-> [e EXCEPT !.pos_y = e.pos_y - 1], outcome |-> "returned"]}
           [] action = 3 -> {[env |-> [e EXCEPT !.pos_x = e.pos_x - 1], outcome |-> "returned"]}
           [] OTHER -> {[env |-> e, outcome |-> "panicked"]}

\* after game over and for an unavailable action step prints a message and
\* returns without changing anything.
GridWorld_step(e, action) ==
    IF GridWorld_is_game_over(e)
    THEN {[env |-> e, outcome |-> "returned"]}
    ELSE IF ~contains(GridWorld_available_actions(e), action)
    THEN {[env |-> e, outcome |-> "returned"]}
    ELSE CASE action = 0 -> {[env |-> [e EXCEPT !.pos_y = e.pos_y - 1], outcome |-> "returned"]}
           [] action = 1 -> {[env |-> [e EXCEPT !.pos_x = e.pos_x + 1], outcome |-> "returned"]}
           [] action = 2 -> {[env |-> [e EXCEPT !.pos_y = e.pos_y + 1], outcome |-> "returned"]}
           [] action = 3 -> {[env |-> [e EXCEPT !.pos_x = e.pos_x - 1], outcome |-> "returned"]}
           [] OTHER -> {[env |-> e, outcome |-> "panicked"]}

\* transitions[state][action][next_state]; the rows of the two terminal
\* states are skipped and stay all zero.
GridWorld_transition_probabilities(e) ==
    [state \in 0..(e.size * e.size - 1) |->
        LET x == state % e.size
            y == state \div e.size
            terminal == (x = 0 /\ y = 0) \/ (x = e.size - 1 /\ y = e.size - 1)
            target(action) ==
                CASE action = 0 -> IF y > 0 THEN (y - 1) * e.size + x ELSE state
                  [] action = 1 -> IF x < e.size - 1 THEN y * e.size + (x + 1) ELSE state
                  [] action = 2 -> IF y < e.size - 1 THEN (y + 1) * e.size + x ELSE state
                  [] action = 3 -> IF x > 0 THEN y * e.size + (x - 1) ELSE state
        IN [action \in 0..3 |-> [next \in 0..(e.size * e.size - 1) |->
               IF terminal THEN 0
               ELSE IF next = target(action) THEN 1 ELSE 0]]]

-----------------------------------------------------------------------------
(* RPS: environments/src/rps.rs *)

RPS_new_with_mode(human_mode) ==
    [kind |-> "RPS", current_round |-> 0, max_rounds |-> 2, player_score |-> 0,
     agent_last_move |-> None, human_mode |-> human_mode]

RPS_new == RPS_new_with_mode(FALSE)

RPS_state_id(e) == IF is_none(e.agent_last_move) THEN 3 ELSE unwrap(e.agent_last_move)

\* a game that ends one round late
RPS_is_game_over_late(e) == e.current_round > e.max_rounds

RPS_is_game_over(e) == e.current_round >= e.max_rounds

RPS_available_actions(e) == IF RPS_is_game_over(e) THEN << >> ELSE <<0, 1, 2>>

\* the set of moves the opponent can make: read from the keyboard in human
\* mode, drawn at random in round 0, the agent's first move in round 1.
\* The empty set stands for the panics (expect on None, unreachable!).
RPS_get_opponent_move(e) ==
    IF e.human_mode THEN {0, 1, 2}
    ELSE CASE e.current_round = 0 -> {0, 1, 2}
           [] e.current_round = 1 ->
                IF is_some(e.agent_last_move) THEN {unwrap(e.agent_last_move)} ELSE {}
           [] OTHER -> {}

RPS_calculate_round_outcome(agent_move, opponent_move) ==
    IF agent_move = opponent_move THEN 0
    ELSE IF <<agent_move, opponent_move>> \in {<<0, 2>>, <<1, 0>>, <<2, 1>>} THEN 1
    ELSE -1

RPS_step(e, agent_action) ==
    IF RPS_is_game_over(e)
    THEN {[env |-> e, outcome |-> "panicked"]}
    ELSE IF ~contains(RPS_available_actions(e), agent_action)
    THEN {[env |-> e, outcome |-> "panicked"]}
    ELSE IF RPS_get_opponent_move(e) = {}
    THEN {[env |-> e, outcome |-> "panicked"]}
    ELSE {[env |-> [e EXCEPT
                      !.agent_last_move =
                          IF e.current_round = 0 THEN Some(agent_action) ELSE @,
                      !.player_score =
                          @ + RPS_calculate_round_outcome(agent_action, opponent_move),
                      !.current_round = @ + 1],
           outcome |-> "returned"] : opponent_move \in RPS_get_opponent_move(e)}

\* a reset that forgets to clear the agent's first move
RPS_reset_keeps_last_move(e) ==
    [e EXCEPT !.current_round = 0, !.player_score = 0]

RPS_reset(e) ==
    [e EXCEPT !.current_round = 0, !.player_score = 0, !.agent_last_move = None]

-----------------------------------------------------------------------------
(* MontyHall (3 doors): environments/src/monty_hall_paradox1.rs            *)
(* MontyHall2 (5 doors): environments/src/monty_hall_paradox2.rs           *)
(* The two differ in the number of doors, in the door a switch selects and *)
(* in the actions_taken counter; doors is 3 or 5.                          *)

MontyHall_new ==
    {[kind |-> "MontyHall", winning_door |-> w, chosen_door |-> None,
      revealed_door |-> None, final_choice |-> None] : w \in 0..2}

MontyHall2_new ==
    {[kind |-> "MontyHall2", winning_door |-> w, chosen_door |-> None,
      revealed_door |-> None, final_choice |-> None, actions_taken |-> 0] : w \in 0..4}

Monty_doors(e) == IF e.kind = "MontyHall" THEN 3 ELSE 5

Monty_state_id(e) ==
    e.winning_door * (Monty_doors(e) * Monty_doors(e))
        + unwrap_or(e.chosen_door, 0) * Monty_doors(e)
        + unwrap_or(e.revealed_door, 0)

MontyHall_is_game_over(e) == is_some(e.final_choice)

MontyHall2_is_game_over(e) == e.actions_taken >= 4 \/ is_some(e.final_choice)

Monty_is_game_over(e) ==
    IF e.kind = "MontyHall" THEN MontyHall_is_game_over(e) ELSE MontyHall2_is_game_over(e)

Monty_available_actions(e) ==
    IF is_none(e.chosen_door) THEN range(Monty_doors(e))
    ELSE IF is_none(e.revealed_door) THEN << >>
    ELSE <<0, 1>>

Monty_score(e) ==
    IF is_some(e.final_choice)
    THEN (IF unwrap(e.final_choice) = e.winning_door THEN 1 ELSE 0)
    ELSE 0

\* The door a switch (action 1) selects. MontyHall: 3 - chosen - revealed in
\* usize; when the subtraction underflows a debug build panics (the empty
\* set) and a release build wraps, the wrapped value 2^64 + d being written
\* here as the negative number d. MontyHall2: the first door that is neither
\* the chosen nor the revealed one.
Monty_switch_door(e) ==
    LET c == unwrap(e.chosen_door)
        r == unwrap(e.revealed_door)
    IN IF e.kind = "MontyHall"
       THEN (IF 3 - c - r >= 0 THEN {Some(3 - c - r)} ELSE {None, Some(3 - c - r)})
       ELSE {Some(CHOOSE d \in 0..4 :
                    /\ d # c /\ d # r
                    /\ \A d2 \in 0..(d - 1) : d2 = c \/ d2 = r)}

\* The first step stores the chosen door and reveals at random one of the
\* doors that is neither chosen nor winning; the second step stores the
\* final choice. No action argument is rejected.
Monty_step(e, action) ==
    LET count(x) == IF e.kind = "MontyHall2" THEN [x EXCEPT !.actions_taken = @ + 1] ELSE x
    IN IF Monty_is_game_over(e)
       THEN {[env |-> e, outcome |-> "returned"]}
       ELSE IF is_none(e.chosen_door)
       THEN LET doors == retain(range(Monty_doors(e)),
                                (0..(Monty_doors(e) - 1)) \ {action, e.winning_door})
            IN {[env |-> count([e EXCEPT !.chosen_door = Some(action),
                                         !.revealed_door = Some(doors[i])]),
                 outcome |-> "returned"] : i \in 1..Len(doors)}
       ELSE IF action = 1
       THEN {IF f = None
             THEN [env |-> e, outcome |-> "panicked"]
             ELSE [env |-> count([e EXCEPT !.final_choice = f]), outcome |-> "returned"]
             : f \in Monty_switch_door(e)}
       ELSE {[env |-> count([e EXCEPT !.final_choice = e.chosen_door]),
              outcome |-> "returned"]}

\* reset draws a new winning door
Monty_reset(e) ==
    IF e.kind = "MontyHall" THEN MontyHall_new ELSE MontyHall2_new

\* vec![vec![vec![1.0; num_states]; num_actions]; num_states]
Monty_transition_probabilities(e) ==
    LET n == Monty_doors(e) * Monty_doors(e) * Monty_doors(e)
    IN [state \in 0..(n - 1) |-> [action \in 0..(Monty_doors(e) - 1) |->
           [next \in 0..(n - 1) |-> 1]]]

-----------------------------------------------------------------------------
(* SecretEnv: environments/src/secret_env.rs                                *)
(* Every operation calls into a native library loaded at run time. What     *)
(* the library answers is not in the repository: the object is the record   *)
(* of the answers it gives now, and reset and step leave any such record.   *)
(* The state ids and the actions it names are below the num_states and the  *)
(* num_actions it reports.                                                  *)

SecretEnv_new ==
    {[kind |-> "SecretEnv", state_id |-> s, is_game_over |-> over,
      available_actions |-> aa, score |-> sc] :
        s \in 0..(SecretNumStates - 1), over \in BOOLEAN,
        aa \in Subsequences(range(SecretNumActions)), sc \in 0..MaxSecretScore}

SecretEnv_reset(e) == SecretEnv_new

SecretEnv_step(e, action) == {[env |-> x, outcome |-> "returned"] : x \in SecretEnv_new}

-----------------------------------------------------------------------------
(* The Environment trait (environments/src/lib.rs), dispatched on the      *)
(* implementing type.                                                      *)

EnvKinds == {"LineWorld", "GridWorld", "RPS", "MontyHall", "MontyHall2"}

\* the environments that implement transition_probabilities()
ModelKinds == {"LineWorld", "GridWorld", "MontyHall", "MontyHall2"}

new(kind) ==
    CASE kind = "LineWorld" -> {LineWorld_new}
      [] kind = "GridWorld" -> {GridWorld_new}
      [] kind = "RPS" -> {RPS_new}
      [] kind = "MontyHall" -> MontyHall_new
      [] kind = "MontyHall2" -> MontyHall2_new
      [] kind = "SecretEnv" -> SecretEnv_new

num_states(e) ==
    CASE e.kind = "LineWorld" -> 5
      [] e.kind = "GridWorld" -> e.size * e.size
      [] e.kind = "RPS" -> 4
      [] e.kind = "MontyHall" -> 3 * 3 * 3
      [] e.kind = "MontyHall2" -> 5 * 5 * 5
      [] e.kind = "SecretEnv" -> SecretNumStates

num_actions(e) ==
    CASE e.kind = "LineWorld" -> 2
      [] e.kind = "GridWorld" -> 4
      [] e.kind = "RPS" -> 3
      [] e.kind = "MontyHall" -> 3
      [] e.kind = "MontyHall2" -> 5
      [] e.kind = "SecretEnv" -> SecretNumActions

state_id(e) ==
    CASE e.kind = "LineWorld" -> e.state
      [] e.kind = "GridWorld" -> e.pos_y * e.size + e.pos_x
      [] e.kind = "RPS" -> RPS_state_id(e)
      [] e.kind \in {"MontyHall", "MontyHall2"} -> Monty_state_id(e)
      [] e.kind = "SecretEnv" -> e.state_id

reset(e) ==
    CASE e.kind = "LineWorld" -> {[e EXCEPT !.state = 2]}
      [] e.kind = "GridWorld" -> {[e EXCEPT !.pos_x = 1, !.pos_y = 1]}
      [] e.kind = "RPS" -> {RPS_reset(e)}
      [] e.kind \in {"MontyHall", "MontyHall2"} -> Monty_reset(e)
      [] e.kind = "SecretEnv" -> SecretEnv_reset(e)

is_game_over(e) ==
    CASE e.kind = "LineWorld" -> LineWorld_is_game_over(e)
      [] e.kind = "GridWorld" -> GridWorld_is_game_over(e)
      [] e.kind = "RPS" -> RPS_is_game_over(e)
      [] e.kind \in {"MontyHall", "MontyHall2"} -> Monty_is_game_over(e)
      [] e.kind = "SecretEnv" -> e.is_game_over

available_actions(e) ==
    CASE e.kind = "LineWorld" -> LineWorld_available_actions(e)
      [] e.kind = "GridWorld" -> GridWorld_available_actions(e)
      [] e.kind = "RPS" -> RPS_available_actions(e)
      [] e.kind \in {"MontyHall", "MontyHall2"} -> Monty_available_actions(e)
      [] e.kind = "SecretEnv" -> e.available_actions

score(e) ==
    CASE e.kind = "LineWorld" -> LineWorld_score(e)
      [] e.kind = "GridWorld" -> GridWorld_score(e)
      [] e.kind = "RPS" -> e.player_score
      [] e.kind \in {"MontyHall", "MontyHall2"} -> Monty_score(e)
      [] e.kind = "SecretEnv" -> e.score

\* the set of outcomes of step(action): [env |-> the environment afterwards,
\* outcome |-> "returned" or "panicked"]
step(e, action) ==
    CASE e.kind = "LineWorld" -> LineWorld_step(e, action)
      [] e.kind = "GridWorld" -> GridWorld_step(e, action)
      [] e.kind = "RPS" -> RPS_step(e, action)
      [] e.kind \in {"MontyHall", "MontyHall2"} -> Monty_step(e, action)
      [] e.kind = "SecretEnv" -> SecretEnv_step(e, action)

transition_probabilities(e) ==
    CASE e.kind = "LineWorld" -> LineWorld_transition_probabilities(e)
      [] e.kind = "GridWorld" -> GridWorld_transition_probabilities(e)
      [] e.kind \in {"MontyHall", "MontyHall2"} -> Monty_transition_probabilities(e)

\* what a caller can observe of an environment
Observable(e) ==
    [state_id |-> state_id(e), score |-> score(e), is_game_over |-> is_game_over(e)]

-----------------------------------------------------------------------------
(* The algorithms' tables and get_best_action: algorithms/src/*.rs         *)
(*                                                                         *)
(* An agent is one algorithm object. table is its State x Action array     *)
(* (q_table of QLearning, Sarsa and DynaQ, weights of DQN, q_values of the *)
(* Monte-Carlo controls and of ValueIteration, the logits "policy" of      *)
(* Reinforce); policy and value are the State arrays of PolicyIteration    *)
(* (policy also of ValueIteration and the off-policy control); weights is  *)
(* the feature-weight vector of SemiGradientSarsa.                         *)

Algorithms ==
    {"QLearning", "Sarsa", "DynaQ", "DQN", "MonteCarloControl",
     "OffPolicyMonteCarloControl", "PolicyIteration", "ValueIteration",
     "Reinforce", "SemiGradientSarsa"}

\* <Algorithm>::new(num_states, num_actions, ...): all tables zero.
\* SemiGradientSarsa is built with num_states * num_actions features
\* (src/main.rs).
Agent_new(alg, ns, na) ==
    [alg |-> alg, num_states |-> ns, num_actions |-> na,
     table |-> [s \in 0..(ns - 1) |-> [a \in 0..(na - 1) |-> 0]],
     policy |-> [s \in 0..(ns - 1) |-> 0],
     value |-> [s \in 0..(ns - 1) |-> 0],
     num_features |-> ns * na,
     weights |-> [i \in 0..(ns * na - 1) |-> 0],
     model |-> << >>, planning_steps |-> 0, batch_size |-> 0]

Returned(x) == [outcome |-> "returned", action |-> <<x>>]

Panicked == [outcome |-> "panicked", action |-> << >>]

\* let mut best = 0th; for the others in order: if value > best_value, take
\* it. The result is the index of the first maximum.
RECURSIVE scan_greater(_, _, _)
scan_greater(vals, i, best) ==
    IF i > Len(vals) THEN best
    ELSE scan_greater(vals, i + 1, IF vals[i] > vals[best] THEN i ELSE best)

\* Iterator::max_by: the later element wins unless the earlier one compares
\* Greater. The result is the index of the last maximum.
RECURSIVE scan_max_by(_, _, _)
scan_max_by(vals, i, best) ==
    IF i > Len(vals) THEN best
    ELSE scan_max_by(vals, i + 1, IF vals[best] > vals[i] THEN best ELSE i)

\* QLearning, DynaQ, DQN, MonteCarloControl: available_actions[0] is read
\* first, which panics on an empty slice.
Table_get_best_action(self, state, available) ==
    IF Len(available) = 0 THEN Panicked
    ELSE LET vals == [i \in 1..Len(available) |->
                         self.table[state][available[i]]]
         IN Returned(available[scan_greater(vals, 2, 1)])

\* Sarsa: an explicit panic on an empty slice, then the same loop
Sarsa_get_best_action(self, state, available) ==
    IF Len(available) = 0 THEN Panicked
    ELSE LET vals == [i \in 1..Len(available) |->
                         self.table[state][available[i]]]
         IN Returned(available[scan_greater(vals, 2, 1)])

\* SemiGradientSarsa::compute_features: a 0/1 vector with a one at
\* (state * action) % num_features and a one at state % num_features
SemiGradientSarsa_compute_features(self, state, action) ==
    [i \in 0..(self.num_features - 1) |->
        IF i = (state * action) % self.num_features \/ i = state % self.num_features
        THEN 1 ELSE 0]

SemiGradientSarsa_approximate_q_value(self, state, action) ==
    LET features == SemiGradientSarsa_compute_features(self, state, action)
    IN SumSeq([i \in 1..self.num_features |-> features[i - 1] * self.weights[i - 1]])

SemiGradientSarsa_get_best_action(self, state, available) ==
    IF Len(available) = 0 THEN Panicked
    ELSE LET vals == [i \in 1..Len(available) |->
                         SemiGradientSarsa_approximate_q_value(
                             self, state, available[i])]
         IN Returned(available[scan_greater(vals, 2, 1)])

\* ValueIteration: a panic on an empty slice, else max_by over the q-values;
\* for a state beyond the table every action counts NEG_INFINITY, so all
\* compare equal.
ValueIteration_get_best_action(self, state, available) ==
    IF Len(available) = 0 THEN Panicked
    ELSE LET vals == [i \in 1..Len(available) |->
                         IF state < self.num_states
                         THEN self.table[state][available[i]] ELSE 0]
         IN Returned(available[scan_max_by(vals, 2, 1)])

\* OffPolicyMonteCarloControl: 0 on an empty slice, else max_by
OffPolicyMonteCarloControl_get_best_action(self, state, available) ==
    IF Len(available) = 0 THEN Returned(0)
    ELSE LET vals == [i \in 1..Len(available) |->
                         self.table[state][available[i]]]
         IN Returned(available[scan_max_by(vals, 2, 1)])

\* a wrong lookup: the stored policy action is returned whether or not it
\* is available
PolicyIteration_get_best_action_unchecked(self, state, available) ==
    IF Len(available) = 0 THEN Returned(0)
    ELSE Returned(self.policy[state])

\* PolicyIteration: 0 on an empty slice; the stored policy action if it is
\* among the available ones; else best_action, which the loop only ever
\* sets to available_actions[0] (value[state] > max_value holds at most in
\* the first round, max_value starting at f32::MIN).
PolicyIteration_get_best_action(self, state, available) ==
    IF Len(available) = 0 THEN Returned(0)
    ELSE IF contains(available, self.policy[state])
    THEN Returned(self.policy[state])
    ELSE Returned(available[1])

\* e^d for a whole d <= 0, in thousandths, rounded to nearest
ExpMilli(d) ==
    CASE d = 0 -> 1000
      [] d = -1 -> 368
      [] d = -2 -> 135
      [] d = -3 -> 50
      [] d = -4 -> 18
      [] d = -5 -> 7
      [] d = -6 -> 2
      [] d = -7 -> 1
      [] OTHER -> 0

\* Reinforce::softmax, in thousandths: exp(x - max) / sum
Reinforce_softmax(self, state) ==
    LET logits == self.table[state]
        n == self.num_actions
        max_val == CHOOSE m \in {logits[a] : a \in 0..(n - 1)} :
                       \A a \in 0..(n - 1) : logits[a] <= m
        exp_vals == [a \in 0..(n - 1) |-> ExpMilli(logits[a] - max_val)]
        sum == SumSeq([i \in 1..n |-> exp_vals[i - 1]])
    IN [a \in 0..(n - 1) |-> (exp_vals[a] * 1000) \div sum]

\* Reinforce: the available action of greatest probability, the first on ties
Reinforce_get_best_action(self, state, available) ==
    IF Len(available) = 0 THEN Panicked
    ELSE LET probs == Reinforce_softmax(self, state)
             vals == [i \in 1..Len(available) |-> probs[available[i]]]
         IN Returned(available[scan_greater(vals, 1, 1)])

get_best_action(self, state, available) ==
    CASE self.alg \in {"QLearning", "DynaQ", "DQN", "MonteCarloControl"} ->
            Table_get_best_action(self, state, available)
      [] self.alg = "Sarsa" ->
            Sarsa_get_best_action(self, state, available)
      [] self.alg = "SemiGradientSarsa" ->
            SemiGradientSarsa_get_best_action(self, state, available)
      [] self.alg = "ValueIteration" ->
            ValueIteration_get_best_action(self, state, available)
      [] self.alg = "OffPolicyMonteCarloControl" ->
            OffPolicyMonteCarloControl_get_best_action(self, state, available)
      [] self.alg = "PolicyIteration" ->
            PolicyIteration_get_best_action(self, state, available)
      [] self.alg = "Reinforce" ->
            Reinforce_get_best_action(self, state, available)

-----------------------------------------------------------------------------
(* ReplayMemory: algorithms/src/dqn.rs *)

ReplayMemory_new(capacity) == [transitions |-> << >>, capacity |-> capacity]

\* Vec::remove(0); it panics on an empty vector
Vec_remove_first(v) ==
    IF Len(v) = 0 THEN [vec |-> v, outcome |-> "panicked"]
    ELSE [vec |-> Tail(v), outcome |-> "returned"]

\* a wrong eviction: the newest transition is dropped instead of the oldest
ReplayMemory_push_evict_newest(m, transition) ==
    IF Len(m.transitions) >= m.capacity
    THEN IF Len(m.transitions) = 0
         THEN [memory |-> m, outcome |-> "panicked"]
         ELSE [memory |-> [m EXCEPT !.transitions =
                              Append(SubSeq(@, 1, Len(@) - 1), transition)],
               outcome |-> "returned"]
    ELSE [memory |-> [m EXCEPT !.transitions = Append(@, transition)],
          outcome |-> "returned"]

ReplayMemory_push(m, transition) ==
    IF Len(m.transitions) >= m.capacity
    THEN LET removed == Vec_remove_first(m.transitions)
         IN IF removed.outcome = "panicked"
            THEN [memory |-> m, outcome |-> "panicked"]
            ELSE [memory |-> [m EXCEPT !.transitions = Append(removed.vec, transition)],
                  outcome |-> "returned"]
    ELSE [memory |-> [m EXCEPT !.transitions = Append(@, transition)],
          outcome |-> "returned"]

ReplayMemory_len(m) == Len(m.transitions)

\* a wrong sampling: each position of the minibatch is drawn on its own, so
\* one stored transition can be taken twice
ReplayMemory_sample_with_replacement(m, batch_size) ==
    LET n == Len(m.transitions)
        k == IF batch_size < n THEN batch_size ELSE n
    IN [1..k -> 1..n]

\* indices = 0..len, shuffled; take(batch_size): the first batch_size places
\* of a permutation of the stored positions, all of them when fewer are
\* stored. A minibatch is the sequence of the positions it reads.
ReplayMemory_sample(m, batch_size) ==
    LET n == Len(m.transitions)
        k == IF batch_size < n THEN batch_size ELSE n
    IN {b \in [1..k -> 1..n] : \A i, j \in 1..k : b[i] = b[j] => i = j}

Transitions ==
    [state : 0..MaxTransitionState, action : {0}, reward : {0}, next_state : {0},
     done : {FALSE}]

-----------------------------------------------------------------------------
(* QLearning (algorithms/src/q_learning.rs) and DynaQ                       *)
(* (algorithms/src/dyna_q.rs): the temporal-difference update of their     *)
(* train loops.                                                             *)

\* stands for f32::MIN, the start value of fold(f32::MIN, f32::max): a value
\* below every value a modelled table holds
F32_MIN == -1000000

f32_max(a, b) == IF b > a THEN b ELSE a

\* actions.iter().map(|&a| row[a]).fold(f32::MIN, f32::max)
RECURSIVE fold_max(_, _, _)
fold_max(row, actions, acc) ==
    IF actions = << >> THEN acc
    ELSE fold_max(row, Tail(actions), f32_max(acc, row[Head(actions)]))

QLearning_new(ns, na, alpha, epsilon, gamma) ==
    [q_table |-> [s \in 0..(ns - 1) |-> [a \in 0..(na - 1) |-> 0]],
     alpha |-> alpha, epsilon |-> epsilon, gamma |-> gamma]

\* The body of the while loop of QLearning::train after env.step(a): e_next
\* is the environment after the step, r the score difference.
QLearning_train_update(self, s, a, r, e_next) ==
    LET s_next == state_id(e_next)
        max_q_next == IF is_game_over(e_next) THEN 0
                      ELSE fold_max(self.q_table[s_next], available_actions(e_next), F32_MIN)
    IN [self EXCEPT !.q_table[s][a] = @ + self.alpha * (r + self.gamma * max_q_next - @)]

DynaQ_new(ns, na, alpha, epsilon, gamma, planning_steps) ==
    [q_table |-> [s \in 0..(ns - 1) |-> [a \in 0..(na - 1) |-> 0]],
     model |-> << >>,
     alpha |-> alpha, epsilon |-> epsilon, gamma |-> gamma,
     planning_steps |-> planning_steps]

\* next_actions.is_empty() decides whether the next state bootstraps
DynaQ_update_q_value(self, state, action, reward, next_state, next_actions) ==
    LET max_q_next == IF next_actions = << >> THEN 0
                      ELSE fold_max(self.q_table[next_state], next_actions, F32_MIN)
    IN [self EXCEPT !.q_table[state][action] =
                        @ + self.alpha * (reward + self.gamma * max_q_next - @)]

\* an insert that keeps the value of a key the map already holds
HashMap_insert_or_keep(map, key, value) ==
    IF \E i \in 1..Len(map) : map[i].key = key
    THEN map
    ELSE Append(map, [key |-> key, value |-> value])

\* HashMap::insert on the model: a sequence of entries with distinct keys
HashMap_insert(map, key, value) ==
    IF \E i \in 1..Len(map) : map[i].key = key
    THEN [i \in 1..Len(map) |-> IF map[i].key = key
                                THEN [key |-> key, value |-> value] ELSE map[i]]
    ELSE Append(map, [key |-> key, value |-> value])

\* One planning step: any entry of the model, every action index of the
\* next state's row as next_actions. The set of the objects it can leave.
DynaQ_planning_step(self) ==
    IF self.model = << >> THEN {self}
    ELSE {DynaQ_update_q_value(self, self.model[i].key[1], self.model[i].key[2],
                               self.model[i].value[1], self.model[i].value[2],
                               range(Cardinality(DOMAIN self.q_table[self.model[i].value[2]])))
          : i \in 1..Len(self.model)}

\* for _ in 0..planning_steps { self.planning_step(&mut rng) }
RECURSIVE DynaQ_planning(_, _)
DynaQ_planning(selves, n) ==
    IF n = 0 THEN selves
    ELSE DynaQ_planning(UNION {DynaQ_planning_step(x) : x \in selves}, n - 1)

\* The body of the while loop of DynaQ::train after env.step(action)
DynaQ_train_update(self, state, action, reward, e_next) ==
    LET next_state == state_id(e_next)
        updated == DynaQ_update_q_value(self, state, action, reward, next_state,
                                        available_actions(e_next))
        stored == [updated EXCEPT !.model =
                       HashMap_insert(@, <<state, action>>, <<reward, next_state>>)]
    IN DynaQ_planning({stored}, self.planning_steps)

-----------------------------------------------------------------------------
(* train: algorithms/src/*.rs                                               *)
(*                                                                          *)
(* The call frame of one train call is the record                           *)
(*   pc              "enter", "for" (at the head of the episode loop),      *)
(*                   "while" (at the head of the step loop), "after" (the   *)
(*                   step loop was left by break), "done"                   *)
(*   outcome         "running", "returned" or "panicked"                    *)
(*   max_episodes    the argument                                           *)
(*   episodes_begun  the iterations of the episode loop begun so far        *)
(*   episode_rewards the vector train returns                               *)
(*   total_reward, state, action, steps, episode, episode_states            *)
(*                   the locals of the episode in progress                  *)
(*   real_steps      the environment steps taken so far                     *)
(* The control flow, the environment calls and the identity of the table    *)
(* entries written are followed; the f32 arithmetic of the updates is not:  *)
(* an entry that train assigns receives any value of TableValues. epsilon   *)
(* is strictly between 0 and 1 (src/main.rs), so the exploring and the      *)
(* greedy branch of an action choice are both possible.                     *)

\* let max_steps = 25 (Sarsa, SemiGradientSarsa)
Sarsa_max_steps == 25

\* let max_steps = 100 (OffPolicyMonteCarloControl::generate_episode)
OffPolicy_max_steps == 100

Train_new(max_episodes) ==
    [pc |-> "enter", outcome |-> "running", max_episodes |-> max_episodes,
     episodes_begun |-> 0, episode_rewards |-> << >>, total_reward |-> 0,
     state |-> 0, action |-> 0, steps |-> 0, episode |-> << >>,
     episode_states |-> {}, real_steps |-> 0]

Config(e, self, m, t) == [env |-> e, agent |-> self, memory |-> m, train |-> t]

\* a panic unwinds out of train
Panic(t) == [t EXCEPT !.pc = "done", !.outcome = "panicked"]

\* if rand::random::<f32>() <= self.epsilon { *aa.choose(&mut rng).unwrap() }
\* else { self.get_best_action(s, &aa) }
epsilon_greedy(self, s, aa) ==
    (IF aa = << >> THEN {Panicked} ELSE {Returned(aa[i]) : i \in 1..Len(aa)})
        \cup {get_best_action(self, s, aa)}

\* MonteCarloControl::select_action: gen_range(0..0) panics, and so does
\* available_actions[0]
MonteCarloControl_select_action(self, state, aa) ==
    IF aa = << >> THEN {Panicked}
    ELSE {Returned(aa[i]) : i \in 1..Len(aa)}
            \cup {LET vals == [i \in 1..Len(aa) |-> self.table[state][aa[i]]]
                  IN Returned(aa[scan_greater(vals, 2, 1)])}

\* OffPolicyMonteCarloControl::behavior_policy: the exploring branch takes
\* the action of greatest upper confidence bound, which the visit counts
\* make any of the available actions.
OffPolicyMonteCarloControl_behavior_policy(self, state, aa) ==
    IF aa = << >> THEN {Returned(0)}
    ELSE {Returned(aa[i]) : i \in 1..Len(aa)} \cup {get_best_action(self, state, aa)}

\* Reinforce::sample_action: every action index has a positive softmax
\* probability, available or not
Reinforce_sample_action(self, state) ==
    {Returned(a) : a \in 0..(self.num_actions - 1)}

\* table[s][a] is assigned
WriteEntry(self, s, a) ==
    {[self EXCEPT !.table[s][a] = v] : v \in -MaxTableValue..MaxTableValue}

\* for i in 0..weights.len() { weights[i] += alpha * td_error * gradient[i] }:
\* the weights whose feature is 1 are assigned
SemiGradientSarsa_write(self, s, a) ==
    LET gradient == SemiGradientSarsa_compute_features(self, s, a)
        touched == {i \in DOMAIN gradient : gradient[i] = 1}
    IN {[self EXCEPT !.weights = [i \in DOMAIN self.weights |->
                                     IF i \in touched THEN w[i] ELSE self.weights[i]]]
        : w \in [touched -> -MaxTableValue..MaxTableValue]}

Learn(self, s, a) ==
    IF self.alg = "SemiGradientSarsa" THEN SemiGradientSarsa_write(self, s, a)
    ELSE WriteEntry(self, s, a)

\* the entries of a set of (state, action) pairs are assigned
RECURSIVE WritePairs(_, _)
WritePairs(self, pairs) ==
    IF pairs = {} THEN {self}
    ELSE LET p == CHOOSE p \in pairs : TRUE
         IN UNION {WritePairs(x, pairs \ {p}) : x \in Learn(self, p[1], p[2])}

\* DynaQ::planning_step on the agent record
Agent_planning_step(self) ==
    IF self.model = << >> THEN {self}
    ELSE UNION {WriteEntry(self, self.model[i].key[1], self.model[i].key[2])
                : i \in 1..Len(self.model)}

RECURSIVE Agent_planning(_, _)
Agent_planning(selves, n) ==
    IF n = 0 THEN selves
    ELSE Agent_planning(UNION {Agent_planning_step(x) : x \in selves}, n - 1)

\* One iteration of the while loop of QLearning::train, DynaQ::train and
\* DQN::train: choose, step, learn. The set of configurations it can leave.
Td_train_step(self, m, t, e) ==
    LET s == state_id(e)
        stepped(a, r) ==
            LET reward == score(r.env) - score(e)
                t1 == [t EXCEPT !.total_reward = @ + reward, !.state = state_id(r.env)]
            IN CASE self.alg = "QLearning" ->
                      {Config(r.env, x, m, t1) : x \in WriteEntry(self, s, a)}
                 [] self.alg = "DynaQ" ->
                      LET stored == {[x EXCEPT !.model =
                                         HashMap_insert(@, <<s, a>>, <<reward, state_id(r.env)>>)]
                                     : x \in WriteEntry(self, s, a)}
                      IN {Config(r.env, x, m, t1)
                          : x \in Agent_planning(stored, self.planning_steps)}
                 [] self.alg = "DQN" ->
                      LET pushed_ == ReplayMemory_push(m,
                                        [state |-> s, action |-> a, reward |-> reward,
                                         next_state |-> state_id(r.env),
                                         done |-> is_game_over(r.env)])
                          m1 == pushed_.memory
                      IN IF pushed_.outcome = "panicked"
                         THEN {Config(r.env, self, m, Panic(t1))}
                         ELSE IF ReplayMemory_len(m1) >= self.batch_size
                         THEN UNION {{Config(r.env, x, m1, t1)
                                      : x \in WritePairs(self,
                                                {<<m1.transitions[batch[i]].state,
                                                   m1.transitions[batch[i]].action>>
                                                 : i \in DOMAIN batch})}
                                     : batch \in ReplayMemory_sample(m1, self.batch_size)}
                         ELSE {Config(r.env, self, m1, t1)}
    IN UNION {IF sel.outcome = "panicked"
              THEN {Config(e, self, m, Panic(t))}
              ELSE UNION {IF r.outcome = "panicked"
                          THEN {Config(r.env, self, m, Panic(t))}
                          ELSE stepped(sel.action[1], r)
                          : r \in step(e, sel.action[1])}
              : sel \in epsilon_greedy(self, s, available_actions(e))}

\* One iteration of the while loop of Sarsa::train and of
\* SemiGradientSarsa::train: step with the action chosen before, then
\* choose the next one.
Sarsa_train_step(self, m, t, e) ==
    UNION {IF r.outcome = "panicked"
           THEN {Config(r.env, self, m, Panic(t))}
           ELSE LET reward == score(r.env) - score(e)
                    state == state_id(r.env)
                    t1 == [t EXCEPT !.total_reward = @ + reward, !.state = state,
                                    !.steps = @ + 1]
                    next_available_actions == available_actions(r.env)
                IN IF is_game_over(r.env)
                   THEN {Config(r.env, x, m, [t1 EXCEPT !.pc = "after"])
                         : x \in Learn(self, t.state, t.action)}
                   ELSE IF next_available_actions = << >>
                   THEN {Config(r.env, self, m, [t1 EXCEPT !.pc = "after"])}
                   ELSE UNION {{Config(r.env, x, m, [t1 EXCEPT !.action = sel.action[1]])
                                : x \in Learn(self, t.state, t.action)}
                               : sel \in epsilon_greedy(self, state, next_available_actions)}
           : r \in step(e, t.action)}

\* One iteration of the while loop of MonteCarloControl::generate_episode
MonteCarloControl_generate_episode_step(self, m, t, e) ==
    LET state == state_id(e)
    IN UNION {IF sel.outcome = "panicked"
              THEN {Config(e, self, m, Panic(t))}
              ELSE {IF r.outcome = "panicked"
                    THEN Config(r.env, self, m, Panic(t))
                    ELSE Config(r.env, self, m,
                                [t EXCEPT !.episode = Append(@, <<state, sel.action[1],
                                                                  score(r.env) - score(e)>>)])
                    : r \in step(e, sel.action[1])}
              : sel \in MonteCarloControl_select_action(self, state, available_actions(e))}

\* One iteration of the while loop of
\* OffPolicyMonteCarloControl::generate_episode. The rewards of this
\* algorithm are in tenths: the adjusted reward is reward + 0.1 or
\* reward - 0.1 * (steps - episode_states.len()).
OffPolicyMonteCarloControl_generate_episode_step(self, m, t, e) ==
    LET state == state_id(e)
        aa == available_actions(e)
        states1 == t.episode_states \cup {state}
        adjusted(reward) == IF Cardinality(states1) > t.steps
                            THEN 10 * reward + 1
                            ELSE 10 * reward - (t.steps - Cardinality(states1))
    IN IF aa = << >>
       THEN {Config(e, self, m, [t EXCEPT !.pc = "after"])}
       ELSE UNION {{IF r.outcome = "panicked"
                    THEN Config(r.env, self, m, Panic(t))
                    ELSE Config(r.env, self, m,
                                [t EXCEPT !.episode_states = states1,
                                          !.episode = Append(@, <<state, sel.action[1],
                                                        adjusted(score(r.env) - score(e))>>),
                                          !.steps = @ + 1])
                    : r \in step(e, sel.action[1])}
                   : sel \in OffPolicyMonteCarloControl_behavior_policy(self, state, aa)}

\* One iteration of the while loop of Reinforce::train
Reinforce_train_step(self, m, t, e) ==
    LET state == state_id(e)
    IN UNION {{IF r.outcome = "panicked"
               THEN Config(r.env, self, m, Panic(t))
               ELSE Config(r.env, self, m,
                           [t EXCEPT !.total_reward = @ + score(r.env) - score(e),
                                     !.episode = Append(@, <<state, sel.action[1],
                                                             score(r.env) - score(e)>>)])
               : r \in step(e, sel.action[1])}
              : sel \in Reinforce_sample_action(self, state)}

\* One iteration of the while loop of ValueIteration::train: the score
\* itself, not its difference, is added.
ValueIteration_train_step(self, m, t, e) ==
    LET state == state_id(e)
        aa == available_actions(e)
    IN IF aa = << >>
       THEN {Config(e, self, m, [t EXCEPT !.pc = "after"])}
       ELSE {IF r.outcome = "panicked"
             THEN Config(r.env, self, m, Panic(t))
             ELSE Config(r.env, self, m, [t EXCEPT !.total_reward = @ + score(r.env)])
             : r \in step(e, get_best_action(self, state, aa).action[1])}

\* the condition of the while loop
train_loop_condition(self, t, e) ==
    CASE self.alg \in {"Sarsa", "SemiGradientSarsa"} ->
            ~is_game_over(e) /\ t.steps < Sarsa_max_steps
      [] self.alg = "OffPolicyMonteCarloControl" ->
            ~is_game_over(e) /\ t.steps < OffPolicy_max_steps
      [] OTHER -> ~is_game_over(e)

train_step(self, m, t, e) ==
    CASE self.alg \in {"QLearning", "DynaQ", "DQN"} -> Td_train_step(self, m, t, e)
      [] self.alg \in {"Sarsa", "SemiGradientSarsa"} -> Sarsa_train_step(self, m, t, e)
      [] self.alg = "MonteCarloControl" ->
            MonteCarloControl_generate_episode_step(self, m, t, e)
      [] self.alg = "OffPolicyMonteCarloControl" ->
            OffPolicyMonteCarloControl_generate_episode_step(self, m, t, e)
      [] self.alg = "Reinforce" -> Reinforce_train_step(self, m, t, e)
      [] self.alg = "ValueIteration" -> ValueIteration_train_step(self, m, t, e)

\* the locals of an episode, as they are when no episode is in progress
no_episode(t) ==
    [t EXCEPT !.total_reward = 0, !.state = 0, !.action = 0, !.steps = 0,
              !.episode = << >>, !.episode_states = {}]

\* The head of an episode: env.reset() and what precedes the while loop.
\* Sarsa and SemiGradientSarsa choose the first action here and go on to
\* the next episode (continue) if the state after reset() has no action.
train_begin_episode(self, m, t, e) ==
    UNION {LET t0 == [no_episode(t) EXCEPT !.episodes_begun = @ + 1,
                                             !.state = state_id(e1), !.pc = "while"]
               available == available_actions(e1)
           IN IF self.alg \in {"Sarsa", "SemiGradientSarsa"}
              THEN IF available = << >>
                   THEN {Config(e1, self, m, [no_episode(t0) EXCEPT !.pc = "for"])}
                   ELSE {Config(e1, self, m, [t0 EXCEPT !.action = sel.action[1]])
                         : sel \in epsilon_greedy(self, state_id(e1), available)}
              ELSE {Config(e1, self, m, t0)}
           : e1 \in reset(e)}

\* MonteCarloControl::train after generate_episode: the entry of every
\* (state, action) of the episode is assigned once. The
\* probability rows update_policy fills are read by nothing and not kept.
MonteCarloControl_process_episode(self, episode) ==
    WritePairs(self, {<<episode[i][1], episode[i][2]>> : i \in 1..Len(episode)})

\* OffPolicyMonteCarloControl::train after generate_episode: backwards from
\* step k, assign the entry, set the policy action of the state to
\* get_best_action over what the environment offers now, and stop at the
\* first step whose action is not the policy action.
RECURSIVE OffPolicyMonteCarloControl_process_episode(_, _, _, _)
OffPolicyMonteCarloControl_process_episode(self, episode, k, e) ==
    IF k = 0 THEN {self}
    ELSE LET state == episode[k][1]
             action == episode[k][2]
         IN UNION {LET x1 == [x EXCEPT !.policy[state] =
                                  get_best_action(x, state, available_actions(e)).action[1]]
                   IN IF action # x1.policy[state] THEN {x1}
                      ELSE OffPolicyMonteCarloControl_process_episode(x1, episode, k - 1, e)
                   : x \in WriteEntry(self, state, action)}

\* Reinforce::train after the episode: for every step t, G sums the
\* rewards of the steps t + 1 .. n - 1 and update_factor * grad is added to
\* the logit of every action of the state. For the last step the sum is
\* empty, G is 0.0 and the addition leaves the logits as they are; for the
\* other steps they are assigned.
Reinforce_process_episode(self, episode) ==
    WritePairs(self, {<<episode[i][1], a>> : i \in 1..(Len(episode) - 1),
                                             a \in 0..(self.num_actions - 1)})

\* if steps == max_steps { episode.last_mut().map(|(_s, _a, r)| *r -= 1.0) }
OffPolicyMonteCarloControl_penalize(episode, steps) ==
    IF steps = OffPolicy_max_steps /\ episode # << >>
    THEN [episode EXCEPT ![Len(episode)][3] = @ - 10]
    ELSE episode

\* The tail of an episode: what follows the while loop, with the push of
\* the episode's reward total.
train_end_episode(self, m, t, e) ==
    LET pushed_(total) == [no_episode(t) EXCEPT !.episode_rewards = Append(@, total),
                                                 !.pc = "for"]
        rewards(episode) == SumSeq([i \in 1..Len(episode) |-> episode[i][3]])
    IN CASE self.alg = "MonteCarloControl" ->
              {Config(e, x, m, pushed_(rewards(t.episode)))
               : x \in MonteCarloControl_process_episode(self, t.episode)}
         [] self.alg = "OffPolicyMonteCarloControl" ->
              LET episode == OffPolicyMonteCarloControl_penalize(t.episode, t.steps)
              IN {Config(e, x, m, pushed_(rewards(episode)))
                  : x \in OffPolicyMonteCarloControl_process_episode(
                             self, episode, Len(episode), e)}
         [] self.alg = "Reinforce" ->
              {Config(e, x, m, pushed_(t.total_reward))
               : x \in Reinforce_process_episode(self, t.episode)}
         [] OTHER -> {Config(e, self, m, pushed_(t.total_reward))}

\* PolicyIteration::policy_iteration. With all rewards and all values 0.0
\* every sum is 0.0: the evaluation stops after one sweep, the improvement
\* takes action 0 everywhere and finds the policy stable. Otherwise the
\* values depend on f32 rounding: any policy, any values.
PolicyIteration_policy_iteration(self, reward_function) ==
    IF /\ \A s \in DOMAIN reward_function : \A a \in DOMAIN reward_function[s] :
             reward_function[s][a] = 0
       /\ \A s \in DOMAIN self.value : self.value[s] = 0
    THEN {[self EXCEPT !.policy = [s \in DOMAIN self.policy |-> 0]]}
    ELSE {[self EXCEPT !.policy = p, !.value = v]
          : p \in [DOMAIN self.policy -> 0..(self.num_actions - 1)],
            v \in [DOMAIN self.value -> -MaxTableValue..MaxTableValue]}

\* One iteration of the episode loop of PolicyIteration::train: plan on the
\* environment's tables, then run the policy. The entry is
\* total_reward / steps, kept as the pair.
PolicyIteration_train_episode(self, m, t, e) ==
    LET planned == PolicyIteration_policy_iteration(self, LineWorld_reward_function(e))
    IN UNION {LET run == LineWorld_run_policy(e, p)
                  t1 == [t EXCEPT !.episodes_begun = @ + 1,
                                  !.episode_rewards =
                                      Append(@, <<run.total_reward, run.steps>>)]
              IN {Config(run.env, x, m, t1) : x \in {y \in planned : y.policy = p}}
              : p \in {x.policy : x \in planned}}

\* train_enter with the two size tests joined by && instead of ||
train_enter_both_differ(self, e) ==
    IF /\ self.alg \in {"PolicyIteration", "ValueIteration"}
       /\ (self.num_states # num_states(e) /\ self.num_actions # num_actions(e))
    THEN LET ns == num_states(e)
             na == num_actions(e)
         IN [self EXCEPT !.num_states = ns, !.num_actions = na,
                         !.policy = [s \in 0..(ns - 1) |-> 0],
                         !.value = [s \in 0..(ns - 1) |-> 0],
                         !.table = IF self.alg = "ValueIteration"
                                   THEN [s \in 0..(ns - 1) |-> [a \in 0..(na - 1) |-> 0]]
                                   ELSE @]
    ELSE self

\* What precedes the episode loop: PolicyIteration and ValueIteration size
\* their tables to the environment if they were built for another one.
train_enter(self, e) ==
    IF /\ self.alg \in {"PolicyIteration", "ValueIteration"}
       /\ (self.num_states # num_states(e) \/ self.num_actions # num_actions(e))
    THEN LET ns == num_states(e)
             na == num_actions(e)
         IN [self EXCEPT !.num_states = ns, !.num_actions = na,
                         !.policy = [s \in 0..(ns - 1) |-> 0],
                         !.value = [s \in 0..(ns - 1) |-> 0],
                         !.table = IF self.alg = "ValueIteration"
                                   THEN [s \in 0..(ns - 1) |-> [a \in 0..(na - 1) |-> 0]]
                                   ELSE @]
    ELSE self

-----------------------------------------------------------------------------
(* The values the variables of a part keep while another part runs *)

NoCall == [op |-> "new", action |-> 0, pre |-> << >>, outcome |-> "returned"]

NoProbe == [state |-> 0, action |-> 0, row |-> << >>]

NoGba == [called |-> FALSE, state |-> 0, available |-> << >>, result |-> Panicked]

EnvIdle ==
    /\ env = LineWorld_new
    /\ call = NoCall
    /\ legal = TRUE
    /\ probe = NoProbe

MemIdle ==
    /\ memory = ReplayMemory_new(0)
    /\ pushed = << >>
    /\ push_outcome = "none"

AgentIdle ==
    /\ agent = Agent_new("QLearning", 1, 1)
    /\ train_writes = 0
    /\ gba = NoGba

DynaIdle ==
    /\ qlearning = QLearning_new(1, 1, 0, 0, 0)
    /\ dynaq = DynaQ_new(1, 1, 0, 0, 0, 0)
    /\ lockstep = [episodes |-> 0, steps |-> 0]

TrainIdle == train = Train_new(0)

OtherIdle ==
    /\ history = << >>
    /\ plan = << >>

-----------------------------------------------------------------------------
(* A ReplayMemory of any capacity, transitions pushed one after another *)

MemInit ==
    /\ memory \in {ReplayMemory_new(c) : c \in 0..MaxCapacity}
    /\ pushed = << >>
    /\ push_outcome = "none"
    /\ EnvIdle
    /\ AgentIdle
    /\ DynaIdle
    /\ TrainIdle
    /\ OtherIdle

MemPush ==
    \E t \in Transitions :
        /\ Len(pushed) < MaxPushes
        /\ push_outcome # "panicked"
        /\ LET r == ReplayMemory_push(memory, t)
           IN /\ memory' = r.memory
              /\ push_outcome' = r.outcome
              /\ pushed' = IF r.outcome = "returned" THEN Append(pushed, t) ELSE pushed
        /\ UNCHANGED <<envVars, agentVars, dynaVars, train, otherVars>>

MemNext == MemPush

SpecMem == MemInit /\ [][MemNext]_vars

\* C3: for every capacity, 0 and 1 included, every push completes and
\* len() never exceeds the capacity.
C3_PushCompletesWithinCapacity ==
    /\ push_outcome # "panicked"
    /\ ReplayMemory_len(memory) <= memory.capacity

\* the last n elements of seq
LastN(seq, n) == SubSeq(seq, Len(seq) - n + 1, Len(seq))

Min(a, b) == IF a <= b THEN a ELSE b

\* C4: with capacity c >= 1, after pushing t1..tn the memory holds exactly
\* the last min(n, c) of them, in push order.
C4_FifoEviction ==
    memory.capacity >= 1 =>
        memory.transitions = LastN(pushed, Min(Len(pushed), memory.capacity))

\* more transitions were pushed than the memory holds, and the oldest one
\* pushed differs from the oldest one kept
C4_Witness ==
    /\ memory.capacity >= 2
    /\ Len(pushed) > memory.capacity
    /\ pushed[1] # memory.transitions[1]
    /\ memory.transitions[1] # memory.transitions[Len(memory.transitions)]

-----------------------------------------------------------------------------
(* The environment driven through its public operations, any action         *)
(* argument in 0..MaxActionArg at any time.                                 *)

EnvInit ==
    /\ env \in UNION {new(k) : k \in EnvKinds}
    /\ call = NoCall
    /\ legal = TRUE
    /\ probe = NoProbe
    /\ MemIdle
    /\ DynaIdle
    /\ TrainIdle
    /\ OtherIdle
    /\ AgentIdle

EnvStep ==
    \E action \in 0..MaxActionArg : \E r \in step(env, action) :
        /\ env' = r.env
        /\ call' = [op |-> "step", action |-> action, pre |-> <<env>>,
                    outcome |-> r.outcome]
        /\ legal' = (legal /\ ~is_game_over(env)
                           /\ contains(available_actions(env), action))
        /\ UNCHANGED <<probe, memVars, agentVars, dynaVars, train, otherVars>>

EnvReset ==
    \E e \in reset(env) :
        /\ env' = e
        /\ call' = [op |-> "reset", action |-> 0, pre |-> <<env>>, outcome |-> "returned"]
        /\ legal' = TRUE
        /\ UNCHANGED <<probe, memVars, agentVars, dynaVars, train, otherVars>>

EnvNext == EnvStep \/ EnvReset

SpecEnv == EnvInit /\ [][EnvNext]_vars

\* C5: in every environment and every state reached from new()/reset() by
\* steps with available actions, available_actions() is empty if and only
\* if is_game_over() is true.
C5_EmptyIffTerminal ==
    legal => ((available_actions(env) = << >>) <=> is_game_over(env))

\* the last call was step(a), made in a non-terminal state with an action
\* that available_actions() did not offer
InvalidActionStep ==
    /\ call.op = "step"
    /\ ~is_game_over(call.pre[1])
    /\ ~contains(available_actions(call.pre[1]), call.action)

\* C6: step(a) in a non-terminal state with a not in available_actions()
\* fails and leaves state_id, score and is_game_over as they were.
C6_InvalidActionRejected ==
    InvalidActionStep =>
        /\ call.outcome = "panicked"
        /\ Observable(env) = Observable(call.pre[1])

\* C7: once is_game_over() is true, step(a) fails for every a and changes
\* nothing: is_game_over stays true, state_id and score stay the same.
C7_StepAfterGameOverRejected ==
    (call.op = "step" /\ is_game_over(call.pre[1])) =>
        /\ call.outcome = "panicked"
        /\ is_game_over(env)
        /\ Observable(env) = Observable(call.pre[1])

-----------------------------------------------------------------------------
(* The planning model of an environment read row by row: what              *)
(* PolicyIteration::train reads through env.transition_probabilities().    *)

ModelInit ==
    /\ env \in UNION {new(k) : k \in ModelKinds}
    /\ call = NoCall
    /\ legal = TRUE
    /\ probe = NoProbe
    /\ MemIdle
    /\ DynaIdle
    /\ TrainIdle
    /\ OtherIdle
    /\ AgentIdle

\* read row [s][a] of transition_probabilities(), once
ModelProbe ==
    \E s \in 0..(num_states(env) - 1) : \E a \in 0..(num_actions(env) - 1) :
        /\ probe = NoProbe
        /\ probe' = [state |-> s, action |-> a,
                     row |-> [i \in 1..num_states(env) |->
                                 transition_probabilities(env)[s][a][i - 1]]]
        /\ UNCHANGED <<env, call, legal, memVars, agentVars, dynaVars, train, otherVars>>

ModelNext == ModelProbe

SpecModel == ModelInit /\ [][ModelNext]_vars

\* the state ids of the non-terminal states of e's environment
NonTerminalStates(e) ==
    CASE e.kind = "LineWorld" ->
            {s \in 0..4 : ~is_game_over([e EXCEPT !.state = s])}
      [] e.kind = "GridWorld" ->
            {s \in 0..(num_states(e) - 1) :
                ~is_game_over([e EXCEPT !.pos_x = s % e.size, !.pos_y = s \div e.size])}
      [] e.kind \in {"MontyHall", "MontyHall2"} ->
            LET start == reset(e)
                second == UNION {{r.env : r \in step(n, available_actions(n)[i])} :
                                   n \in start, i \in 1..Monty_doors(e)}
            IN {state_id(x) : x \in {y \in start \cup second : ~is_game_over(y)}}

\* C8: for every environment with transition_probabilities(), every
\* non-terminal state s and every action a, row [s][a] sums to 1.
C8_RowsSumToOne ==
    (probe # NoProbe /\ probe.state \in NonTerminalStates(env)) =>
        SumSeq(probe.row) = 1

-----------------------------------------------------------------------------
(* get_best_action on an agent built for an environment, as src/main.rs    *)
(* builds it (new(env.num_states(), env.num_actions(), ...)), after        *)
(* training has written into its tables.                                   *)

TableValues == (-MaxTableValue)..MaxTableValue


GbaInit ==
    /\ env = RPS_new
    /\ call = NoCall
    /\ legal = TRUE
    /\ probe = NoProbe
    /\ MemIdle
    /\ DynaIdle
    /\ TrainIdle
    /\ OtherIdle
    /\ agent \in {Agent_new(alg, num_states(env), num_actions(env)) : alg \in Algorithms}
    /\ train_writes = 0
    /\ gba = NoGba

\* What train leaves in the tables: an assignment to one entry. The values
\* are computed from rewards; here every value of TableValues is allowed.
\* PolicyIteration stores a policy action (an action index) or a state
\* value, SemiGradientSarsa a feature weight, the others an entry of the
\* State x Action table.
GbaTrainWrite ==
    /\ train_writes < MaxTrainWrites
    /\ train_writes' = train_writes + 1
    /\ \E s \in 0..(agent.num_states - 1) : \E a \in 0..(agent.num_actions - 1) :
       \E v \in TableValues :
          CASE agent.alg = "PolicyIteration" ->
                  \/ agent' = [agent EXCEPT !.policy[s] = a]
                  \/ agent' = [agent EXCEPT !.value[s] = v]
            [] agent.alg = "SemiGradientSarsa" ->
                  agent' = [agent EXCEPT !.weights[s * agent.num_actions + a] = v]
            [] OTHER ->
                  agent' = [agent EXCEPT !.table[s][a] = v]
    /\ UNCHANGED <<envVars, memVars, gba, dynaVars, train, otherVars>>

GbaCall ==
    /\ \E state \in 0..(agent.num_states - 1) :
       \E available \in Subsequences(range(agent.num_actions)) :
          gba' = [called |-> TRUE, state |-> state, available |-> available,
                  result |-> get_best_action(agent, state, available)]
    /\ UNCHANGED <<envVars, memVars, agent, train_writes, dynaVars, train, otherVars>>

GbaNext == GbaTrainWrite \/ GbaCall

SpecGba == GbaInit /\ [][GbaNext]_vars

\* C1: for every algorithm, get_best_action(state, available_actions) with
\* a valid state and a non-empty available_actions returns an element of
\* available_actions.
C1_BestActionIsAvailable ==
    (gba.called /\ Len(gba.available) > 0) =>
        /\ gba.result.outcome = "returned"
        /\ contains(gba.available, gba.result.action[1])

\* get_best_action was called on a PolicyIteration whose stored policy
\* action for the state is not among the available ones
C1_Witness ==
    /\ gba.called
    /\ agent.alg = "PolicyIteration"
    /\ Len(gba.available) > 0
    /\ ~contains(gba.available, agent.policy[gba.state])
    /\ gba.result = Returned(gba.available[1])

\* C2: for every algorithm, get_best_action with an empty
\* available_actions fails and returns no action.
C2_EmptyActionsFail ==
    (gba.called /\ Len(gba.available) = 0) => gba.result.outcome = "panicked"

-----------------------------------------------------------------------------
(* QLearning::train and DynaQ::train side by side on one environment: both  *)
(* built with the same alpha, epsilon and gamma, both seeing the same       *)
(* states, actions and rewards. epsilon is 1.0, so that every action comes  *)
(* from aa.choose(&mut rng) and can be any available action.                *)

DynaInit ==
    /\ env \in UNION {new(k) : k \in EnvKinds}
    /\ \E alpha \in 0..MaxRate, gamma \in 0..MaxRate, n \in 0..MaxPlanningSteps :
          /\ qlearning = QLearning_new(num_states(env), num_actions(env), alpha, 1, gamma)
          /\ dynaq = DynaQ_new(num_states(env), num_actions(env), alpha, 1, gamma, n)
    /\ lockstep = [episodes |-> 0, steps |-> 0]
    /\ call = NoCall
    /\ legal = TRUE
    /\ probe = NoProbe
    /\ MemIdle
    /\ AgentIdle
    /\ TrainIdle
    /\ OtherIdle

\* for _ in 0..max_episodes { env.reset(); ... }: the next episode begins
\* when the while loop of the one before has ended
DynaEpisode ==
    /\ lockstep.episodes < MaxEpisodes
    /\ lockstep.episodes = 0 \/ is_game_over(env)
    /\ \E e \in reset(env) : env' = e
    /\ lockstep' = [lockstep EXCEPT !.episodes = @ + 1]
    /\ call' = [op |-> "reset", action |-> 0, pre |-> <<env>>, outcome |-> "returned"]
    /\ UNCHANGED <<legal, probe, memVars, agentVars, qlearning, dynaq, train, otherVars>>

\* One iteration of while !env.is_game_over() in both loops. No
\* non-terminal state of the five environments has an empty
\* available_actions(), on which choose(..).unwrap() would panic.
DynaStep ==
    /\ lockstep.episodes > 0
    /\ lockstep.steps < MaxRealSteps
    /\ ~is_game_over(env)
    /\ LET aa == available_actions(env)
           s == state_id(env)
           prev_score == score(env)
       IN \E i \in 1..Len(aa) : \E r \in step(env, aa[i]) :
            /\ r.outcome = "returned"
            /\ env' = r.env
            /\ call' = [op |-> "step", action |-> aa[i], pre |-> <<env>>,
                        outcome |-> r.outcome]
            /\ qlearning' = QLearning_train_update(qlearning, s, aa[i],
                                                   score(r.env) - prev_score, r.env)
            /\ dynaq' \in DynaQ_train_update(dynaq, s, aa[i],
                                              score(r.env) - prev_score, r.env)
    /\ lockstep' = [lockstep EXCEPT !.steps = @ + 1]
    /\ UNCHANGED <<legal, probe, memVars, agentVars, train, otherVars>>

DynaNext == DynaEpisode \/ DynaStep

SpecDyna == DynaInit /\ [][DynaNext]_vars

\* C10: a DynaQ built with planning_steps = 0 and a QLearning built with
\* the same alpha, epsilon and gamma, fed the same experience from the
\* same environment, hold identical Q-tables after every real step.
C10_DynaQWithoutPlanningIsQLearning ==
    dynaq.planning_steps = 0 => dynaq.q_table = qlearning.q_table

-----------------------------------------------------------------------------
(* One call of train(env, max_episodes): every algorithm on a SecretEnv,    *)
(* PolicyIteration, which needs the tables of the environment, on a         *)
(* LineWorld. The agent is built for the sizes the environment reports;     *)
(* PolicyIteration also as PolicyIteration::default(), for one state and    *)
(* one action.                                                              *)

TrainInit ==
    /\ \E alg \in Algorithms :
          /\ env \in IF alg = "PolicyIteration" THEN {LineWorld_new} ELSE SecretEnv_new
          /\ agent \in
                {[x EXCEPT !.planning_steps = MaxPlanningSteps, !.batch_size = TrainBatchSize]
                 : x \in {Agent_new(alg, num_states(env), num_actions(env))}
                         \cup (IF alg = "PolicyIteration" THEN {Agent_new(alg, 1, 1)} ELSE {})}
          /\ memory = ReplayMemory_new(IF alg = "DQN" THEN TrainMemoryCapacity ELSE 0)
    /\ train \in {Train_new(n) : n \in 0..MaxTrainEpisodes}
    /\ call = NoCall
    /\ legal = TRUE
    /\ probe = NoProbe
    /\ pushed = << >>
    /\ push_outcome = "none"
    /\ train_writes = 0
    /\ gba = NoGba
    /\ DynaIdle
    /\ OtherIdle

TrainTo(c) ==
    /\ env' = c.env
    /\ agent' = c.agent
    /\ memory' = c.memory
    /\ train' = c.train
    /\ UNCHANGED <<call, legal, probe, pushed, push_outcome, train_writes, gba, dynaVars, otherVars>>

\* train is entered
TrainEnter ==
    /\ train.pc = "enter"
    /\ TrainTo(Config(env, train_enter(agent, env), memory, [train EXCEPT !.pc = "for"]))

\* for _ in 0..max_episodes: the next episode begins
TrainEpisode ==
    /\ train.pc = "for"
    /\ train.episodes_begun < train.max_episodes
    /\ \E c \in IF agent.alg = "PolicyIteration"
                 THEN PolicyIteration_train_episode(agent, memory, train, env)
                 ELSE train_begin_episode(agent, memory, train, env) :
          TrainTo(c)

\* one iteration of the while loop of the episode
TrainStep ==
    /\ train.pc = "while"
    /\ train_loop_condition(agent, train, env)
    /\ train.real_steps < MaxTrainSteps
    /\ \E c \in train_step(agent, memory, [train EXCEPT !.real_steps = @ + 1], env) :
          TrainTo(c)

\* the while loop has ended: the episode's total is pushed
TrainEpisodeEnd ==
    /\ \/ train.pc = "after"
       \/ train.pc = "while" /\ ~train_loop_condition(agent, train, env)
    /\ \E c \in train_end_episode(agent, memory, train, env) :
          TrainTo(c)

\* the episode loop has ended: train returns episode_rewards
TrainReturn ==
    /\ train.pc = "for"
    /\ train.episodes_begun = train.max_episodes
    /\ TrainTo(Config(env, agent, memory,
                      [train EXCEPT !.pc = "done", !.outcome = "returned"]))

TrainNext == TrainEnter \/ TrainEpisode \/ TrainStep \/ TrainEpisodeEnd \/ TrainReturn

SpecTrain == TrainInit /\ [][TrainNext]_vars

\* C9: for every algorithm and every environment, train(env, n) returns a
\* sequence of exactly n entries, one reward total per episode, also when
\* an episode has no step because the state after reset() has no
\* available action or is already terminal.
C9_TrainReturnsOneEntryPerEpisode ==
    train.pc = "done" =>
        /\ train.outcome = "returned"
        /\ Len(train.episode_rewards) = train.max_episodes

-----------------------------------------------------------------------------
(* MonteCarloControl::train with the arithmetic of its returns              *)
(* (algorithms/src/on_montecarlo_control.rs).                               *)
(*                                                                          *)
(* gamma is 0.0, 0.5 or 1.0, kept in halves (gamma_halves 0, 1, 2). A       *)
(* return g is kept in units of 1/ReturnUnit, a power of two large enough   *)
(* for the halvings of one episode, and an entry of q_values, a mean of     *)
(* returns, in units of 1/(ReturnUnit * MeanUnit), MeanUnit being a         *)
(* multiple of every number of returns a mean is taken of. On such values   *)
(* the f32 operations of the loop are exact.                                *)

\* an episode of generate_episode has at most MaxMcSteps steps
MaxMcSteps == 4

RECURSIVE Pow(_, _)
Pow(b, n) == IF n = 0 THEN 1 ELSE b * Pow(b, n - 1)

RECURSIVE Factorial(_)
Factorial(n) == IF n = 0 THEN 1 ELSE n * Factorial(n - 1)

ReturnUnit == Pow(2, MaxMcSteps)

MeanUnit == Factorial(MaxTrainEpisodes)

\* MonteCarloControl::new: q_values (table) all 0.0, returns all empty. The
\* probability rows of policy, which update_policy fills and nothing
\* reads, are not kept.
MonteCarloControl_new(ns, na, gamma_halves) ==
    [alg |-> "MonteCarloControl", num_states |-> ns, num_actions |-> na,
     table |-> [s \in 0..(ns - 1) |-> [a \in 0..(na - 1) |-> 0]],
     returns |-> [s \in 0..(ns - 1) |-> [a \in 0..(na - 1) |-> << >>]],
     gamma_halves |-> gamma_halves]

\* The loop of train over episode.iter().enumerate().rev(), from step t
\* (counted from 1) down to the first: g = gamma * g + reward; if the
\* (state, action) of the step is not in visited, g is pushed to its returns
\* and its q-value becomes their sum over their number.
RECURSIVE MonteCarloControl_process_rev(_, _, _, _, _)
MonteCarloControl_process_rev(self, episode, t, g, visited) ==
    IF t = 0 THEN self
    ELSE LET state == episode[t][1]
             action == episode[t][2]
             reward == episode[t][3]
             g1 == (self.gamma_halves * g) \div 2 + reward * ReturnUnit
         IN IF <<state, action>> \notin visited
            THEN LET returns1 == Append(self.returns[state][action], g1)
                     self1 == [self EXCEPT
                                 !.returns[state][action] = returns1,
                                 !.table[state][action] =
                                     (SumSeq(returns1) * MeanUnit) \div Len(returns1)]
                 IN MonteCarloControl_process_rev(self1, episode, t - 1, g1,
                                                  visited \cup {<<state, action>>})
            ELSE MonteCarloControl_process_rev(self, episode, t - 1, g1, visited)

\* One iteration of the episode loop of train after generate_episode: the
\* total is pushed, then the episode is processed.
MonteCarloControl_train_episode_end(self, m, t, e) ==
    LET total_reward == SumSeq([i \in 1..Len(t.episode) |-> t.episode[i][3]])
    IN Config(e, MonteCarloControl_process_rev(self, t.episode, Len(t.episode), 0, {}),
              m, [no_episode(t) EXCEPT !.episode_rewards = Append(@, total_reward),
                                       !.pc = "for"])


McInit ==
    /\ env \in UNION {new(k) : k \in EnvKinds}
    /\ agent \in {MonteCarloControl_new(num_states(env), num_actions(env), g) : g \in 0..2}
    /\ train \in {[Train_new(n) EXCEPT !.pc = "for"] : n \in 1..MaxTrainEpisodes}
    /\ history = << >>
    /\ plan = << >>
    /\ call = NoCall
    /\ legal = TRUE
    /\ probe = NoProbe
    /\ train_writes = 0
    /\ gba = NoGba
    /\ MemIdle
    /\ DynaIdle

McTo(c) ==
    /\ env' = c.env
    /\ agent' = c.agent
    /\ train' = c.train
    /\ UNCHANGED <<call, legal, probe, memVars, train_writes, gba, dynaVars, plan>>

\* for _ in 0..max_episodes: generate_episode resets the environment
McEpisode ==
    /\ train.pc = "for"
    /\ train.episodes_begun < train.max_episodes
    /\ \E c \in train_begin_episode(agent, memory, train, env) : McTo(c)
    /\ UNCHANGED history

\* one iteration of the while loop of generate_episode
McStep ==
    /\ train.pc = "while"
    /\ ~is_game_over(env)
    /\ Len(train.episode) < MaxMcSteps
    /\ \E c \in MonteCarloControl_generate_episode_step(agent, memory, train, env) : McTo(c)
    /\ UNCHANGED history

\* the environment is over: the episode is processed; history notes it down
McEpisodeEnd ==
    /\ train.pc = "while"
    /\ is_game_over(env)
    /\ McTo(MonteCarloControl_train_episode_end(agent, memory, train, env))
    /\ history' = Append(history, train.episode)

McReturn ==
    /\ train.pc = "for"
    /\ train.episodes_begun = train.max_episodes
    /\ McTo(Config(env, agent, memory, [train EXCEPT !.pc = "done", !.outcome = "returned"]))
    /\ UNCHANGED history

McNext == McEpisode \/ McStep \/ McEpisodeEnd \/ McReturn

SpecMc == McInit /\ [][McNext]_vars

\* the steps of an episode at which (s, a) occurs
Visits(episode, s, a) ==
    {t \in 1..Len(episode) : episode[t][1] = s /\ episode[t][2] = a}

\* the first of them
FirstVisit(episode, s, a) ==
    CHOOSE t \in Visits(episode, s, a) : \A u \in Visits(episode, s, a) : t <= u

\* G_t = r_t + gamma r_(t+1) + gamma^2 r_(t+2) + ..., in units of 1/ReturnUnit
DiscountedReturn(episode, t, gamma_halves) ==
    SumSeq([i \in 1..(Len(episode) - t + 1) |->
               (episode[t + i - 1][3] * Pow(gamma_halves, i - 1) * ReturnUnit)
                   \div Pow(2, i - 1)])

\* the first-visit returns of (s, a) over the episodes noted down
FirstVisitReturns(episodes, s, a, gamma_halves) ==
    LET with == retain([i \in 1..Len(episodes) |-> i],
                       {i \in 1..Len(episodes) : Visits(episodes[i], s, a) # {}})
    IN [j \in 1..Len(with) |->
           DiscountedReturn(episodes[with[j]], FirstVisit(episodes[with[j]], s, a),
                            gamma_halves)]

\* C11: after any number of processed episodes, q_values[s][a] is the
\* arithmetic mean of the discounted returns G_t taken at the first step t
\* at which (s, a) occurs in each episode that contains (s, a).
C11_QIsMeanOfFirstVisitReturns ==
    train.pc \in {"for", "done"} =>
        \A s \in DOMAIN agent.table : \A a \in DOMAIN agent.table[s] :
            LET first == FirstVisitReturns(history, s, a, agent.gamma_halves)
            IN first # << >> =>
                  agent.table[s][a] = (SumSeq(first) * MeanUnit) \div Len(first)

-----------------------------------------------------------------------------
(* PolicyIteration::policy_iteration (algorithms/src/policy_iteration.rs)   *)
(* and ValueIteration::value_iteration (algorithms/src/value_iteration.rs)  *)
(* on the same tables, one after the other.                                 *)
(*                                                                          *)
(* The tables are those of a model of PlanStates states and PlanActions     *)
(* actions in which every action leads to one next state; the rewards, and  *)
(* gamma 0.0 or 1.0, are whole numbers, so every f32 of the two loops is a  *)
(* whole number below 2^24 and exact. theta 1 stands for any theta in       *)
(* (0.0, 1.0]: a whole delta is below it exactly if it is 0.                *)

\* the planned model has PlanStates states and PlanActions actions
PlanStates == 2

PlanActions == 2

\* its rewards are 0.0 or MaxReward
MaxReward == 2

\* theta is in 0..MaxTheta
MaxTheta == 1

\* the loop of evaluate_policy is followed for MaxEvaluations iterations
MaxEvaluations == 1001

\* let max_iterations = 1000 (ValueIteration::value_iteration)
ValueIteration_max_iterations == 1000

Abs(x) == IF x < 0 THEN -x ELSE x

\* for next_state in 0..num_states { value += transition_probabilities
\* [state][action][next_state] * (reward_function[state][action]
\* + gamma * value[next_state]) }
Backup(transition_probabilities_, reward_function, gamma, value, state, action) ==
    SumSeq([i \in 1..Cardinality(DOMAIN value) |->
               transition_probabilities_[state][action][i - 1]
                   * (reward_function[state][action] + gamma * value[i - 1])])

PolicyIteration_new(ns, na, gamma, theta) ==
    [num_states |-> ns, num_actions |-> na, gamma |-> gamma, theta |-> theta,
     policy |-> [s \in 0..(ns - 1) |-> 0],
     value |-> [s \in 0..(ns - 1) |-> 0]]

ValueIteration_new(ns, na, gamma, theta) ==
    [num_states |-> ns, num_actions |-> na, gamma |-> gamma, theta |-> theta,
     values |-> [s \in 0..(ns - 1) |-> 0],
     policy |-> [s \in 0..(ns - 1) |-> 0],
     q_values |-> [s \in 0..(ns - 1) |-> [a \in 0..(na - 1) |-> 0]]]

\* One iteration of the loop of evaluate_policy, from state on: value is
\* updated in place, state after state. [self, delta]
RECURSIVE PolicyIteration_evaluate_sweep(_, _, _, _, _)
PolicyIteration_evaluate_sweep(self, P, R, state, delta) ==
    IF state = self.num_states THEN [self |-> self, delta |-> delta]
    ELSE LET old_value == self.value[state]
             new_value == Backup(P, R, self.gamma, self.value, state, self.policy[state])
         IN PolicyIteration_evaluate_sweep([self EXCEPT !.value[state] = new_value], P, R,
                                           state + 1,
                                           f32_max(delta, Abs(old_value - new_value)))

\* max_value = f32::MIN, best_action = 0; for action in 0..num_actions
\* { if value > max_value { take it } }: the first action of greatest value
PolicyIteration_best_action(self, P, R, state) ==
    LET vals == [i \in 1..self.num_actions |->
                    Backup(P, R, self.gamma, self.value, state, i - 1)]
    IN scan_greater(vals, 2, 1) - 1

\* improve_policy: whether the policy was stable is computed and dropped
PolicyIteration_improve_policy(self, P, R) ==
    [self EXCEPT !.policy = [state \in 0..(self.num_states - 1) |->
                                PolicyIteration_best_action(self, P, R, state)]]

\* the condition under which the loop of policy_iteration is left
PolicyIteration_converged(self, P, R) ==
    \A state \in 0..(self.num_states - 1) :
        self.policy[state] = PolicyIteration_best_action(self, P, R, state)

\* One iteration of the loop of value_iteration, from state s on: q_values
\* of s, then values[s] and policy[s] by max_by (the last action of greatest
\* value), in place. [self, delta]
RECURSIVE ValueIteration_sweep(_, _, _, _, _)
ValueIteration_sweep(self, P, R, s, delta) ==
    IF s = self.num_states THEN [self |-> self, delta |-> delta]
    ELSE LET v == self.values[s]
             q == [a \in 0..(self.num_actions - 1) |->
                      Backup(P, R, self.gamma, self.values, s, a)]
             best_action == scan_max_by([i \in 1..self.num_actions |-> q[i - 1]], 2, 1) - 1
             self1 == [self EXCEPT !.q_values[s] = q, !.values[s] = q[best_action],
                                   !.policy[s] = best_action]
         IN ValueIteration_sweep(self1, P, R, s + 1, f32_max(delta, Abs(v - self1.values[s])))

\* the tables: every action of every state leads to one next state
PlanModels ==
    {[transition_probabilities |->
          [s \in 0..(PlanStates - 1) |-> [a \in 0..(PlanActions - 1) |->
              [n \in 0..(PlanStates - 1) |-> IF n = next[s][a] THEN 1 ELSE 0]]],
      reward_function |-> r]
     : next \in [0..(PlanStates - 1) -> [0..(PlanActions - 1) -> 0..(PlanStates - 1)]],
       r \in [0..(PlanStates - 1) -> [0..(PlanActions - 1) -> {0, MaxReward}]]}

\* the frame: the tables, the two objects, where the run is, the iterations
\* of evaluate_policy's loop so far and the local iterations of
\* value_iteration
PlanInit ==
    /\ plan \in {[pc |-> "evaluate_policy", model |-> m,
                  pi |-> PolicyIteration_new(PlanStates, PlanActions, gamma, theta),
                  vi |-> ValueIteration_new(PlanStates, PlanActions, gamma, theta),
                  evaluations |-> 0, iterations |-> 0]
                 : m \in PlanModels, gamma \in 0..MaxRate, theta \in 0..MaxTheta}
    /\ history = << >>
    /\ EnvIdle
    /\ MemIdle
    /\ AgentIdle
    /\ DynaIdle
    /\ TrainIdle

PlanUnchanged ==
    UNCHANGED <<envVars, memVars, agentVars, dynaVars, train, history>>

\* one iteration of the loop of evaluate_policy
PlanEvaluate ==
    /\ plan.pc = "evaluate_policy"
    /\ plan.evaluations < MaxEvaluations
    /\ LET r == PolicyIteration_evaluate_sweep(plan.pi, plan.model.transition_probabilities,
                                               plan.model.reward_function, 0, 0)
       IN plan' = [plan EXCEPT !.pi = r.self, !.evaluations = @ + 1,
                               !.pc = IF r.delta < plan.pi.theta
                                      THEN "improve_policy" ELSE @]
    /\ PlanUnchanged

\* improve_policy and the test that ends the loop of policy_iteration; then
\* value_iteration is called
PlanImprove ==
    /\ plan.pc = "improve_policy"
    /\ LET improved == PolicyIteration_improve_policy(plan.pi,
                           plan.model.transition_probabilities, plan.model.reward_function)
       IN plan' = [plan EXCEPT !.pi = improved,
                               !.pc = IF PolicyIteration_converged(improved,
                                            plan.model.transition_probabilities,
                                            plan.model.reward_function)
                                      THEN "value_iteration" ELSE "evaluate_policy",
                               !.evaluations = 0]
    /\ PlanUnchanged

\* one iteration of the loop of value_iteration
PlanValueSweep ==
    /\ plan.pc = "value_iteration"
    /\ LET r == ValueIteration_sweep(plan.vi, plan.model.transition_probabilities,
                                     plan.model.reward_function, 0, 0)
           iterations == plan.iterations + 1
       IN plan' = [plan EXCEPT !.vi = r.self, !.iterations = iterations,
                               !.pc = IF r.delta < plan.vi.theta
                                         \/ iterations >= ValueIteration_max_iterations
                                      THEN "done" ELSE @]
    /\ PlanUnchanged

PlanNext == PlanEvaluate \/ PlanImprove \/ PlanValueSweep

SpecPlan == PlanInit /\ [][PlanNext]_vars

\* the states in which one action alone has the greatest q-value
UniqueBest(q_values) ==
    {s \in DOMAIN q_values :
        \E a \in DOMAIN q_values[s] :
            \A b \in DOMAIN q_values[s] \ {a} : q_values[s][b] < q_values[s][a]}

\* C12: policy_iteration and value_iteration, run on the same tables with
\* the same gamma and theta, end with value functions that differ by at
\* most theta at every state, and with the same policy action at every
\* state whose best action is unique.
C12_PolicyAndValueIterationAgree ==
    plan.pc = "done" =>
        /\ \A s \in DOMAIN plan.pi.value :
              Abs(plan.pi.value[s] - plan.vi.values[s]) <= plan.pi.theta
        /\ \A s \in UniqueBest(plan.vi.q_values) : plan.pi.policy[s] = plan.vi.policy[s]

\* C13: every planning loop stops after at most a fixed number of
\* iterations, whatever the tables, gamma and theta: the loop of
\* evaluate_policy and the loop of value_iteration never begin more
\* iterations than the cap of value_iteration.
C13_PlanningLoopsAreCapped ==
    plan # << >> =>
        /\ plan.evaluations <= ValueIteration_max_iterations
        /\ plan.iterations <= ValueIteration_max_iterations

-----------------------------------------------------------------------------
(* QLearning::train, Sarsa::train and DynaQ::train on a LineWorld with the  *)
(* arithmetic of their updates (algorithms/src/q_learning.rs, sarsa.rs,     *)
(* dyna_q.rs). alpha and gamma are 0.0 or 1.0, so every entry is an         *)
(* integer; epsilon is 1.0, so every action comes from choose(&mut rng)     *)
(* and can be any available action. A LineWorld episode never ends while    *)
(* the agent goes back and forth between the inner cells.                   *)

\* the environment steps of one train call that are followed
MaxLoopSteps == 26

Sarsa_new(ns, na, alpha, epsilon, gamma) ==
    [q_table |-> [s \in 0..(ns - 1) |-> [a \in 0..(na - 1) |-> 0]],
     alpha |-> alpha, epsilon |-> epsilon, gamma |-> gamma]

\* an update that never bootstraps
Sarsa_train_update_no_bootstrap(self, prev_state, prev_action, reward, next) ==
    [self EXCEPT !.q_table[prev_state][prev_action] = @ + self.alpha * (reward - @)]

\* q_table[prev_state][prev_action] += alpha * (reward + next - q_table[..]):
\* next is 0.0 in the final update and gamma * q_table[state][next_action]
\* in the SARSA rule
Sarsa_train_update(self, prev_state, prev_action, reward, next) ==
    [self EXCEPT !.q_table[prev_state][prev_action] = @ + self.alpha * (reward + next - @)]

LoopInit ==
    /\ env = LineWorld_new
    /\ \E alpha \in 0..MaxRate, gamma \in 0..MaxRate, n \in 0..MaxPlanningSteps :
          agent \in {[alg |-> "QLearning"]
                        @@ QLearning_new(num_states(env), num_actions(env), alpha, 1, gamma),
                     [alg |-> "Sarsa"]
                        @@ Sarsa_new(num_states(env), num_actions(env), alpha, 1, gamma),
                     [alg |-> "DynaQ"]
                        @@ DynaQ_new(num_states(env), num_actions(env), alpha, 1, gamma, n)}
    /\ train \in {[Train_new(n) EXCEPT !.pc = "for"] : n \in 1..MaxTrainEpisodes}
    /\ memory = ReplayMemory_new(0)
    /\ call = NoCall
    /\ legal = TRUE
    /\ probe = NoProbe
    /\ pushed = << >>
    /\ push_outcome = "none"
    /\ train_writes = 0
    /\ gba = NoGba
    /\ DynaIdle
    /\ OtherIdle

\* The head of an episode: env.reset(); Sarsa chooses its first action, or
\* goes on to the next episode if there is none.
LoopEpisode ==
    /\ train.pc = "for"
    /\ train.episodes_begun < train.max_episodes
    /\ \E e1 \in reset(env) :
          LET t0 == [no_episode(train) EXCEPT !.episodes_begun = @ + 1,
                                                !.state = state_id(e1), !.pc = "while"]
              available == available_actions(e1)
          IN IF agent.alg = "Sarsa"
             THEN IF available = << >>
                  THEN TrainTo(Config(e1, agent, memory, [no_episode(t0) EXCEPT !.pc = "for"]))
                  ELSE \E i \in 1..Len(available) :
                          TrainTo(Config(e1, agent, memory, [t0 EXCEPT !.action = available[i]]))
             ELSE TrainTo(Config(e1, agent, memory, t0))

\* One iteration of the while loop. QLearning and DynaQ choose, step and
\* update; Sarsa steps with the action chosen before, chooses the next one
\* and updates with it.
LoopStep ==
    /\ train.pc = "while"
    /\ train_loop_condition(agent, train, env)
    /\ train.real_steps < MaxLoopSteps
    /\ LET t == [train EXCEPT !.real_steps = @ + 1]
           aa == available_actions(env)
           s == state_id(env)
           prev_score == score(env)
       IN IF agent.alg = "Sarsa"
          THEN \E r \in step(env, t.action) :
                  /\ r.outcome = "returned"
                  /\ LET reward == score(r.env) - prev_score
                         state == state_id(r.env)
                         t1 == [t EXCEPT !.total_reward = @ + reward, !.state = state,
                                         !.steps = @ + 1]
                         next_available_actions == available_actions(r.env)
                     IN IF is_game_over(r.env)
                        THEN TrainTo(Config(r.env,
                                 Sarsa_train_update(agent, t.state, t.action, reward, 0),
                                 memory, [t1 EXCEPT !.pc = "after"]))
                        ELSE IF next_available_actions = << >>
                        THEN TrainTo(Config(r.env, agent, memory, [t1 EXCEPT !.pc = "after"]))
                        ELSE \E i \in 1..Len(next_available_actions) :
                                LET next_action == next_available_actions[i]
                                IN TrainTo(Config(r.env,
                                       Sarsa_train_update(agent, t.state, t.action, reward,
                                           agent.gamma * agent.q_table[state][next_action]),
                                       memory, [t1 EXCEPT !.action = next_action]))
          ELSE \E i \in 1..Len(aa) : \E r \in step(env, aa[i]) :
                  /\ r.outcome = "returned"
                  /\ LET reward == score(r.env) - prev_score
                         t1 == [t EXCEPT !.total_reward = @ + reward,
                                         !.state = state_id(r.env)]
                     IN \E x \in IF agent.alg = "DynaQ"
                                 THEN DynaQ_train_update(agent, s, aa[i], reward, r.env)
                                 ELSE {QLearning_train_update(agent, s, aa[i], reward, r.env)} :
                           TrainTo(Config(r.env, x, memory, t1))

LoopNext == LoopEpisode \/ LoopStep \/ TrainEpisodeEnd \/ TrainReturn

SpecLoop == LoopInit /\ [][LoopNext]_vars

\* C14: in QLearning, Sarsa and DynaQ every episode ends at game-over or
\* after a fixed number of steps, so a train call of max_episodes episodes
\* takes at most max_episodes times that number of environment steps. The
\* only such number these three sources hold is the 25 of Sarsa.
C14_EpisodesAreStepCapped ==
    agent.alg \in {"QLearning", "Sarsa", "DynaQ"} =>
        train.real_steps <= train.max_episodes * Sarsa_max_steps

-----------------------------------------------------------------------------
(* PolicyIteration::train and ValueIteration::train called on a LineWorld   *)
(* with an object that was built, and has planned, for an environment of    *)
(* the same or of other sizes: its tables are not zero when train is        *)
(* entered. The LineWorld is as new() or an earlier run left it, at its     *)
(* start or at one of its two ends; history holds it as it is when train    *)
(* is entered. gamma is 0.0 or 1.0.                                         *)

\* the (num_states, num_actions) the object was built with; LineWorld has
\* (5, 2)
ResizeSizes == {<<1, 1>>, <<2, 2>>, <<5, 2>>, <<5, 3>>}

\* the episodes of the train call
ResizeEpisodes == 1

ResizeInit ==
    /\ env \in {[LineWorld_new EXCEPT !.state = s] : s \in {0, 2, 4}}
    /\ \E alg \in {"PolicyIteration", "ValueIteration"}, size \in ResizeSizes :
          agent \in {[Agent_new(alg, size[1], size[2]) EXCEPT
                         !.policy = [s \in DOMAIN @ |-> p],
                         !.value = [s \in DOMAIN @ |-> v],
                         !.table = [s \in DOMAIN @ |-> [a \in DOMAIN @[s] |-> v]]]
                        @@ [gamma |-> gamma]
                     : p \in 0..(size[2] - 1), v \in 1..MaxTableValue, gamma \in 0..MaxRate}
    /\ memory = ReplayMemory_new(0)
    /\ train \in {Train_new(n) : n \in 0..ResizeEpisodes}
    /\ history = <<env>>
    /\ plan = << >>
    /\ call = NoCall
    /\ legal = TRUE
    /\ probe = NoProbe
    /\ pushed = << >>
    /\ push_outcome = "none"
    /\ train_writes = 0
    /\ gba = NoGba
    /\ DynaIdle

SpecResize == ResizeInit /\ [][TrainNext]_vars

SizesDiffer(self, e) ==
    self.num_states # num_states(e) \/ self.num_actions # num_actions(e)

\* C15: when PolicyIteration::train or ValueIteration::train is entered
\* with an object whose num_states or num_actions differs from the
\* environment's, the object takes the environment's sizes and its tables
\* (policy, value, and the q_values of ValueIteration) are re-created
\* zeroed at those sizes before the first episode; when both sizes match
\* the object is left as it is.
C15_TablesResetIffSizesDiffer ==
    [][(train.pc = "enter" /\ train'.pc = "for") =>
          IF SizesDiffer(agent, env)
          THEN LET ns == num_states(env)
                   na == num_actions(env)
               IN /\ agent'.num_states = ns
                  /\ agent'.num_actions = na
                  /\ agent'.policy = [s \in 0..(ns - 1) |-> 0]
                  /\ agent'.value = [s \in 0..(ns - 1) |-> 0]
                  /\ agent.alg = "ValueIteration" =>
                         agent'.table = [s \in 0..(ns - 1) |-> [a \in 0..(na - 1) |-> 0]]
          ELSE agent' = agent]_vars

\* a ValueIteration built for other sizes has entered train: every object
\* starts with non-zero values, so zero values at the head of the first
\* episode are those of the reset
C15_Witness ==
    /\ train.pc = "for"
    /\ train.episodes_begun = 0
    /\ agent.alg = "ValueIteration"
    /\ agent.num_states = num_states(env)
    /\ agent.num_actions = num_actions(env)
    /\ \A s \in DOMAIN agent.value : agent.value[s] = 0
    /\ \A s \in DOMAIN agent.table : \A a \in DOMAIN agent.table[s] : agent.table[s][a] = 0

-----------------------------------------------------------------------------
\* C16: for PolicyIteration and ValueIteration, get_best_action(state,
\* available_actions) with a non-empty available_actions returns the
\* stored policy[state] if it is among the available actions, and
\* available_actions[0] otherwise.
C16_PlanningBestActionIsStoredPolicy ==
    (/\ gba.called
     /\ agent.alg \in {"PolicyIteration", "ValueIteration"}
     /\ Len(gba.available) > 0) =>
        gba.result = Returned(IF contains(gba.available, agent.policy[gba.state])
                              THEN agent.policy[gba.state]
                              ELSE gba.available[1])

\* C17: in every environment and every state reached from new()/reset()
\* by steps, state_id() is in [0, num_states()), and the position of a
\* GridWorld is inside the grid (0 <= pos_x, pos_y < size).
C17_StateIdInRange ==
    /\ state_id(env) \in 0..(num_states(env) - 1)
    /\ env.kind = "GridWorld" =>
          /\ env.pos_x \in 0..(env.size - 1)
          /\ env.pos_y \in 0..(env.size - 1)

\* C18: reset() after any sequence of steps restores the initial
\* observable state of new(): a LineWorld has state_id 2,
\* available_actions [0, 1] and is not over; a GridWorld has state_id 5
\* and all four actions available; an RPS has state_id 3, current_round 0
\* and score 0.
C18_ResetRestoresInitialState ==
    call.op = "reset" =>
        /\ env.kind = "LineWorld" =>
              /\ state_id(env) = 2
              /\ available_actions(env) = <<0, 1>>
              /\ ~is_game_over(env)
              /\ Observable(env) = Observable(LineWorld_new)
        /\ env.kind = "GridWorld" =>
              /\ state_id(env) = 5
              /\ \A a \in 0..3 : contains(available_actions(env), a)
              /\ Observable(env) = Observable(GridWorld_new)
        /\ env.kind = "RPS" =>
              /\ state_id(env) = 3
              /\ env.current_round = 0
              /\ score(env) = 0
              /\ Observable(env) = Observable(RPS_new)

\* an RPS was reset after a finished game that the agent had won or lost
C18_Witness ==
    /\ call.op = "reset"
    /\ env.kind = "RPS"
    /\ is_game_over(call.pre[1])
    /\ score(call.pre[1]) # 0
    /\ state_id(call.pre[1]) # 3

\* the RPS environments in training mode one and two steps after new() or
\* reset(), for every choice of the actions in {0, 1, 2}
RPS_after_one_step ==
    {r.env : r \in {x \in UNION {step(RPS_new, a) : a \in 0..2} : x.outcome = "returned"}}

RPS_after_two_steps ==
    {r.env : r \in {x \in UNION {step(e, a) : e \in RPS_after_one_step, a \in 0..2} :
                        x.outcome = "returned"}}

\* C19: an RPS in training mode is not over after new() or reset() and
\* after one step, and is over after exactly two steps, for any two
\* actions in {0, 1, 2}; current_round never exceeds max_rounds; a third
\* step panics and leaves the state as it was.
C19_RpsLastsTwoRounds ==
    env.kind = "RPS" =>
        /\ env.current_round <= env.max_rounds
        /\ call.op \in {"new", "reset"} => ~is_game_over(env)
        /\ (call.op = "step" /\ call.action \in 0..2) =>
              /\ call.pre[1] = RPS_new =>
                    /\ call.outcome = "returned"
                    /\ ~is_game_over(env)
                    /\ env \in RPS_after_one_step
              /\ call.pre[1] \in RPS_after_one_step =>
                    /\ call.outcome = "returned"
                    /\ is_game_over(env)
                    /\ env \in RPS_after_two_steps
              /\ call.pre[1] \in RPS_after_two_steps =>
                    /\ call.outcome = "panicked"
                    /\ env = call.pre[1]

\* a third step was tried on a finished game
C19_Witness ==
    /\ env.kind = "RPS"
    /\ call.op = "step"
    /\ call.action \in 0..2
    /\ call.pre[1] \in RPS_after_two_steps
    /\ call.outcome = "panicked"

\* the change of state_id a GridWorld move makes: up, right, down, left
GridWorld_state_id_change(action) ==
    CASE action = 0 -> -4
      [] action = 1 -> 1
      [] action = 2 -> 4
      [] action = 3 -> -1

\* C20: in a GridWorld, step(a) from a non-terminal position with a in
\* available_actions() moves one cell (0: y - 1, 1: x + 1, 2: y + 1,
\* 3: x - 1), so state_id changes by -4, +1, +4, -1; the game is over
\* exactly at state 0, where the score is 1.0, and at state 15, where it
\* is -1.0; the score is 0.0 in every other state.
C20_GridWorldMovesAndEnds ==
    env.kind = "GridWorld" =>
        /\ is_game_over(env) <=> state_id(env) \in {0, 15}
        /\ score(env) = CASE state_id(env) = 0 -> 1
                          [] state_id(env) = 15 -> -1
                          [] OTHER -> 0
        /\ (/\ call.op = "step"
            /\ ~is_game_over(call.pre[1])
            /\ contains(available_actions(call.pre[1]), call.action)) =>
              LET pre == call.pre[1]
              IN /\ call.outcome = "returned"
                 /\ env.pos_x = pre.pos_x + (CASE call.action = 1 -> 1
                                                [] call.action = 3 -> -1
                                                [] OTHER -> 0)
                 /\ env.pos_y = pre.pos_y + (CASE call.action = 2 -> 1
                                                [] call.action = 0 -> -1
                                                [] OTHER -> 0)
                 /\ state_id(env) = state_id(pre) + GridWorld_state_id_change(call.action)

\* a move to the left has just ended the game at state 0
C20_Witness ==
    /\ env.kind = "GridWorld"
    /\ call.op = "step"
    /\ call.action = 3
    /\ ~is_game_over(call.pre[1])
    /\ state_id(env) = 0
    /\ is_game_over(env)
    /\ score(env) = 1

-----------------------------------------------------------------------------
\* the (key, value) pairs a model holds
ModelEntries(model) == {<<model[i].key, model[i].value>> : i \in DOMAIN model}

\* C21: the model of a DynaQ is empty before the first real step; a real
\* step of (state, action) that observes (reward, next_state) makes the
\* model map (state, action) to (reward, next_state) and leaves every
\* other key as it was, whatever the planning steps that follow it do;
\* nothing else changes the model. So the keys are at all times the pairs
\* executed so far, each with what its most recent execution observed.
C21_ModelIsLastRealExperience ==
    [][/\ lockstep.steps = 0 => dynaq.model = << >>
       /\ IF lockstep'.steps = lockstep.steps + 1
          THEN LET key == <<state_id(env), call'.action>>
                   value == <<score(env') - score(env), state_id(env')>>
               IN /\ call'.op = "step"
                  /\ ModelEntries(dynaq'.model) =
                        {x \in ModelEntries(dynaq.model) : x[1] # key} \cup {<<key, value>>}
                  /\ Len(dynaq'.model) = Cardinality(ModelEntries(dynaq'.model))
          ELSE dynaq'.model = dynaq.model]_vars

\* planning is on, and some pair has been executed more than once: the
\* model holds fewer keys than real steps were taken
C21_Witness ==
    /\ call.op = "step"
    /\ dynaq.planning_steps > 0
    /\ Len(dynaq.model) > 0
    /\ Len(dynaq.model) < lockstep.steps

-----------------------------------------------------------------------------
\* C22: policy_iteration returns only after an improvement pass in which
\* no state's action changed: when improve_policy changes the action of
\* at least one state, evaluate_policy runs again before the return.
C22_ChangedPolicyIsEvaluatedAgain ==
    [][(plan # << >> /\ plan.pc = "improve_policy" /\ plan'.pi.policy # plan.pi.policy) =>
          plan'.pc = "evaluate_policy"]_vars

-----------------------------------------------------------------------------
\* C23: after ValueIteration::train(env, n) with n >= 1 has returned, the
\* tables are those of value iteration on the model env gave when train
\* was entered: for every state s and action a, q_values[s][a] is the
\* backup of (s, a) computed from transition_probabilities() and
\* reward_function(), values[s] is the greatest q_values[s][a] and
\* policy[s] is an action that attains it.
C23_TrainRunsValueIteration ==
    (/\ agent.alg = "ValueIteration"
     /\ history # << >>
     /\ train.pc = "done"
     /\ train.outcome = "returned"
     /\ train.max_episodes >= 1) =>
        LET transition_probabilities_ == LineWorld_transition_probabilities(history[1])
            reward_function == LineWorld_reward_function(history[1])
        IN \A s \in DOMAIN agent.table :
              /\ \A a \in DOMAIN agent.table[s] :
                    /\ agent.table[s][a] = Backup(transition_probabilities_, reward_function,
                                                  agent.gamma, agent.value, s, a)
                    /\ agent.table[s][a] <= agent.value[s]
              /\ agent.value[s] = agent.table[s][agent.policy[s]]

-----------------------------------------------------------------------------
(* OffPolicyMonteCarloControl::train on a LineWorld, where the actions      *)
(* available in a state are known from its state_id. The object holds any  *)
(* policy, as an earlier train call may have left it.                       *)

OffPolicyInit ==
    /\ env = LineWorld_new
    /\ agent \in {[Agent_new("OffPolicyMonteCarloControl", num_states(env), num_actions(env))
                     EXCEPT !.policy = policy]
                  : policy \in [0..(num_states(env) - 1) -> 0..(num_actions(env) - 1)]}
    /\ memory = ReplayMemory_new(0)
    /\ train \in {Train_new(n) : n \in 0..MaxTrainEpisodes}
    /\ call = NoCall
    /\ legal = TRUE
    /\ probe = NoProbe
    /\ pushed = << >>
    /\ push_outcome = "none"
    /\ train_writes = 0
    /\ gba = NoGba
    /\ DynaIdle
    /\ OtherIdle

SpecOffPolicy == OffPolicyInit /\ [][TrainNext]_vars

\* the actions of greatest table[state][a] among those a LineWorld offers
\* in the state
LineWorld_greedy_actions(table, state) ==
    LET available == available_actions([LineWorld_new EXCEPT !.state = state])
    IN {available[i] : i \in {j \in 1..Len(available) :
            \A k \in 1..Len(available) :
                table[state][available[j]] >= table[state][available[k]]}}

\* C24: in the backward pass of OffPolicyMonteCarloControl::train, after
\* the update of the last step (s_t, a_t) of the episode, policy[s_t] is
\* an action of greatest q_values[s_t][a] among the actions available in
\* s_t, and if a_t is not such an action no earlier step is updated.
\* (Stated for an episode whose last state occurs in no earlier step, so
\* that the pass leaves policy[s_t] and q_values[s_t] as that update made
\* them.)
C24_BackwardPassFollowsGreedyPolicy ==
    [][(/\ agent.alg = "OffPolicyMonteCarloControl"
        /\ train.pc \in {"while", "after"}
        /\ train'.pc = "for"
        /\ train.episode # << >>
        /\ \A k \in 1..(Len(train.episode) - 1) :
              train.episode[k][1] # train.episode[Len(train.episode)][1]) =>
          LET state == train.episode[Len(train.episode)][1]
              action == train.episode[Len(train.episode)][2]
              greedy == LineWorld_greedy_actions(agent'.table, state)
          IN /\ agent'.policy[state] \in greedy
             /\ action \notin greedy =>
                   \A k \in 1..(Len(train.episode) - 1) :
                       /\ agent'.table[train.episode[k][1]] = agent.table[train.episode[k][1]]
                       /\ agent'.policy[train.episode[k][1]] = agent.policy[train.episode[k][1]]]_vars

-----------------------------------------------------------------------------
\* C25: in an episode of Sarsa::train, a step executes the action that was
\* selected before it; if the step ends the game the entry of (state,
\* action) moves towards the reward alone, and otherwise towards reward +
\* gamma * q_table[next state][next action], where the next action is the
\* one the following step will execute (it is selected once).
C25_SarsaBootstrapsOnExecutedAction ==
    [][(agent.alg = "Sarsa" /\ train'.real_steps = train.real_steps + 1) =>
          LET state == state_id(env)
              action == train.action
              reward == score(env') - score(env)
              old == agent.q_table[state][action]
              next == IF is_game_over(env') THEN 0
                      ELSE agent.gamma * agent.q_table[state_id(env')][train'.action]
          IN /\ train.state = state
             /\ env' \in {r.env : r \in step(env, action)}
             /\ agent'.q_table =
                   [agent.q_table EXCEPT ![state][action] =
                        old + agent.alpha * (reward + next - old)]
             /\ ~is_game_over(env') =>
                   /\ train'.pc = "while"
                   /\ train'.state = state_id(env')
                   /\ contains(available_actions(env'), train'.action)]_vars

\* Sarsa has just updated an entry with a bootstrap term that is not zero,
\* and goes on
C25_Witness ==
    /\ agent.alg = "Sarsa"
    /\ train.pc = "while"
    /\ train.steps >= 1
    /\ ~is_game_over(env)
    /\ agent.alpha = 1
    /\ agent.gamma = 1
    /\ agent.q_table[train.state][train.action] # 0
    /\ \E s \in DOMAIN agent.q_table : \E a \in DOMAIN agent.q_table[s] :
          /\ <<s, a>> # <<train.state, train.action>>
          /\ agent.q_table[s][a] # 0

-----------------------------------------------------------------------------
\* C26: the return Reinforce::train uses to update step t includes the
\* reward r_t of that step; in particular, when the last step of an
\* episode earned a reward that is not zero, the update changes the logits
\* of its state. (Stated for an episode whose last state occurs in no
\* earlier step.)
C26_LastRewardChangesLogits ==
    [][(/\ agent.alg = "Reinforce"
        /\ train.pc = "while"
        /\ train'.pc = "for"
        /\ train.episode # << >>
        /\ train.episode[Len(train.episode)][3] # 0
        /\ \A k \in 1..(Len(train.episode) - 1) :
              train.episode[k][1] # train.episode[Len(train.episode)][1]) =>
          agent'.table[train.episode[Len(train.episode)][1]]
              # agent.table[train.episode[Len(train.episode)][1]]]_vars


-----------------------------------------------------------------------------
(* DQN::train on a LineWorld with a replay memory of two or three places    *)
(* and minibatches of up to three transitions. The memory belongs to the    *)
(* object, so it is empty or still holds a transition of an earlier call.   *)

ReplayCapacities == {2, 3}

MaxBatchSize == 3

ReplayInit ==
    /\ env = LineWorld_new
    /\ agent \in {[Agent_new("DQN", num_states(env), num_actions(env))
                     EXCEPT !.batch_size = b] : b \in 0..MaxBatchSize}
    /\ memory \in {[ReplayMemory_new(c) EXCEPT !.transitions = ts]
                   : c \in ReplayCapacities,
                     ts \in {<< >>, <<[state |-> 2, action |-> 1, reward |-> 0,
                                       next_state |-> 3, done |-> FALSE]>>}}
    /\ train \in {Train_new(n) : n \in 0..MaxTrainEpisodes}
    /\ call = NoCall
    /\ legal = TRUE
    /\ probe = NoProbe
    /\ pushed = << >>
    /\ push_outcome = "none"
    /\ train_writes = 0
    /\ gba = NoGba
    /\ DynaIdle
    /\ OtherIdle

SpecReplay == ReplayInit /\ [][TrainNext]_vars

\* the (state, action) pairs of the transitions a minibatch reads
BatchPairs(m, batch) ==
    {<<m.transitions[batch[i]].state, m.transitions[batch[i]].action>> : i \in DOMAIN batch}

\* C27: an iteration of the DQN loop that leaves fewer than batch_size
\* transitions in the replay memory changes no weight; one that leaves
\* batch_size or more updates from a minibatch of exactly batch_size
\* transitions read at pairwise distinct positions of the memory.
C27_BatchesAreFullAndDistinct ==
    [][(agent.alg = "DQN" /\ train.pc = "while"
            /\ train'.real_steps = train.real_steps + 1
            /\ train'.outcome # "panicked") =>
          IF ReplayMemory_len(memory') < agent.batch_size
          THEN agent'.table = agent.table
          ELSE /\ \A batch \in ReplayMemory_sample(memory', agent.batch_size) :
                     /\ Len(batch) = agent.batch_size
                     /\ \A i, j \in DOMAIN batch : i # j => batch[i] # batch[j]
               /\ \E batch \in ReplayMemory_sample(memory', agent.batch_size) :
                     agent' \in WritePairs(agent, BatchPairs(memory', batch))]_vars

\* a minibatch of two was drawn from three stored transitions and changed
\* a weight
C27_Witness ==
    /\ agent.alg = "DQN"
    /\ agent.batch_size = 2
    /\ ReplayMemory_len(memory) = 3
    /\ train.real_steps = 2
    /\ agent.table # Agent_new("DQN", 5, 2).table


\* The object DynaQ::train holds after the real update and model.insert of
\* a step, before the planning steps
DynaQ_after_real_update(self, state, action, reward, e_next) ==
    [DynaQ_update_q_value(self, state, action, reward, state_id(e_next),
                          available_actions(e_next))
       EXCEPT !.model = HashMap_insert(@, <<state, action>>, <<reward, state_id(e_next)>>)]

\* C28: a planning update on a sampled pair (s, a) with cached (r, s')
\* changes q_table[s][a] as the Q-Learning update does: the bootstrap is
\* gamma times the maximum of q_table[s'] over the actions available in s'
\* only, and 0 when s' is terminal. Stated for the one planning step after
\* a real step, on the cached entries whose s' is the state the
\* environment is in, where the available actions and the end of the game
\* are read from it.
C28_PlanningUpdateIsQLearningUpdate ==
    [][(lockstep'.steps = lockstep.steps + 1 /\ dynaq.planning_steps = 1) =>
          LET reward == score(env') - score(env)
              stored == DynaQ_after_real_update(dynaq, state_id(env), call'.action,
                                                reward, env')
              here == {i \in 1..Len(stored.model) :
                          stored.model[i].value[2] = state_id(env')}
              elsewhere(i) == DynaQ_planning_step([stored EXCEPT !.model = <<stored.model[i]>>])
          IN dynaq'.q_table \in
                {QLearning_train_update(stored, stored.model[i].key[1],
                                        stored.model[i].key[2],
                                        stored.model[i].value[1], env').q_table : i \in here}
                \cup {x.q_table : x \in UNION {elsewhere(i)
                                               : i \in (1..Len(stored.model)) \ here}}]_vars


\* C29: during train, every action passed to env.step is one of
\* env.available_actions() in the state the environment is in, and env.step
\* is not called when the game is over. Stated for the algorithms that
\* record the steps of the episode (MonteCarloControl,
\* OffPolicyMonteCarloControl, Reinforce): the action of the step just
\* recorded was available before it.
C29_SteppedActionsAreAvailable ==
    [][(/\ agent.alg \in {"MonteCarloControl", "OffPolicyMonteCarloControl", "Reinforce"}
        /\ train.pc = "while"
        /\ Len(train'.episode) = Len(train.episode) + 1) =>
          /\ ~is_game_over(env)
          /\ contains(available_actions(env), train'.episode[Len(train'.episode)][2])]_vars


\* C30: LineWorld::reward_function() returns the same array whatever state
\* the environment is in, so every episode of PolicyIteration::train reads
\* the model a new LineWorld reports.
C30_RewardModelIsStateIndependent ==
    [][(/\ agent.alg = "PolicyIteration"
        /\ env.kind = "LineWorld"
        /\ train.pc = "for"
        /\ train'.episodes_begun = train.episodes_begun + 1) =>
          LineWorld_reward_function(env) = LineWorld_reward_function(LineWorld_new)]_vars

=============================================================================
